---- MODULE Spec2Model ----
(***************************************************************************)
(* Props.cash scraper: the scrape orchestrator (scrapeNbaPropsForDate),    *)
(* the scraper CLI's lock file protocol (main / acquireLock / releaseLock),*)
(* the persistence layer (persistScrapeSession / upsertBatch against the   *)
(* prop_rows table and its natural-key unique index) and the row collector *)
(* (collectAllRowsByScrolling / normalizeRow / makeRowSignature).          *)
(*                                                                         *)
(* Each component has its own specification over its own variables; the    *)
(* variables of the other components stay at their initial values.         *)
(***************************************************************************)
EXTENDS Integers, Sequences, FiniteSets, TLC

VARIABLES
  \* ---- scrapeNbaPropsForDate (src/unnamed/part_000:1350-1544) ----
  toScrape,        \* the filtered option list the loop iterates
  i,               \* loop index (1-based here, 0-based in the source)
  attempt,         \* the retry loop's counter
  pc,              \* position of the orchestrator inside the loop body
  success,         \* the per-category success flag
  rows,            \* rows returned by collectAllRowsByScrolling this attempt
  results,         \* PropScrapeResult[]
  errors,          \* Array<{propKey, propLabel, error}>
  totalRows,       \* running row total
  session,         \* the ScrapeSession built after the loop (NoSession before)
  events,          \* history: what the loop did, in order
  \* ---- scraper CLI processes and the lock file (src/automation/authInit.ts) ----
  lockFile,        \* content of automation/.scraper.lock: <<>> absent, <<pid>> present
  ppc,             \* position of each process inside main()
  browser,         \* main's `browser` local: TRUE once chromium.launch returned
  acquired,        \* history: this run's acquireLock returned true
  scraped,         \* history: this run reached scrapeNbaPropsForDate
  runResult,       \* what main() returned: "none", "ok", "error", "lock_held"
  \* ---- persistence (src/unnamed/part_001, src/automation/db/migration.sql) ----
  prop_rows,       \* table prop_rows: a set of stored rows
  scrape_runs,     \* table scrape_runs: the set of run ids
  dbpc,            \* position inside persistScrapeSession
  dbSession,       \* the session argument of the current call
  runId,           \* the id returned by INSERT INTO scrape_runs
  allRows,         \* the flattened rows of the session
  offset,          \* the chunk loop's index i (0-based, as in the source)
  totalInserted,
  totalUpdated,
  persistResult,   \* the PersistResult returned (NoResult before / on throw)
  rowsBefore,      \* history: prop_rows when the current call started
  again,           \* history: this call re-persists the session of the previous,
                   \*          successful call
  lastWriter,      \* history: natural key -> run id of the last persist that wrote it
  statements,      \* history: the upsert statements this call has sent, in order
  \* ---- collectAllRowsByScrolling (src/unnamed/part_000:1031-1128) ----
  cpc,             \* position inside the collector
  batchRows,       \* the fast path's bulk read
  seenSignatures,  \* Set<string> of the path in progress
  collected,       \* result (fast path) / allRows (slow path) accumulator
  stableCount,
  totalAttempts,
  returned,        \* the rows the call returned (as a sequence), once it returned
  sawDuplicate,    \* history: a read held a row whose signature was already seen
  scrollTop,       \* scroll position of the table container or page, in scroll steps
  tableKind,       \* "short": a few rows; "long": a virtualised grid that reveals a
                   \* further row whenever it renders after a scroll
  \* ---- makeRowSignature on two rows of one category (src/unnamed/part_000:1681-1700) ----
  sigpc,           \* "idle", "rows" (two rows at hand), "signed"
  sigRows,         \* the two rows
  sigOut,          \* their signatures, once computed
  \* ---- scrapeNbaPropsForDate: the page's table and the session file ----
  previousSignature, \* let previousSignature (the signature carried between attempts)
  tableSig,        \* the first-row signature of the table the page shows
  refreshArg,      \* history: previousSignature argument of the waitForTableRefresh call just made
  sigBefore,       \* history: tableSig just before the selection of that attempt
  allPropsFile,    \* nba_all_props.json: Null, or the session written
  noOptions,       \* history: discoverPropOptions returned no options
  selection,       \* history: the page and the outcome of the selectPropOption call just made
  \* ---- discoverPropOptions (src/unnamed/part_000:507-762) ----
  dpc,             \* the strategy being tried, or close / diagnostics / returned / thrown
  tried,           \* number of controls tried so far in this strategy
  options,         \* let options: PropOption[]
  strategy,        \* let strategy
  popupOpen,       \* popups opened by a click and not yet closed with Escape
  activations,     \* history: the strategies whose controls were activated, in order
  overlap,         \* history: a control was activated while a popup was still open
  lateActivation,  \* history: a control was activated after options had been found
  \* ---- main after the scrape (src/automation/authInit.ts:384-459) ----
  mpc,             \* position inside main and the CLI wrapper
  mSession,        \* the session scrapeNbaPropsForDate returned
  dbResult,        \* ScrapeRunResult['db']
  result,          \* what main returns (Null before, and when main rejects)
  runLog,          \* logs/scrape_<timestamp>.json: Null, or the result written
  exitCode,        \* process.exitCode when the process ends
  \* ---- waitForTableRefresh (src/unnamed/part_000:879-928) ----
  rpc,             \* position inside waitForTableRefresh
  now,             \* Date.now(), in ticks of 300 ms since the call
  deadline,        \* Date.now() + timeoutMs, in ticks
  prevArg,         \* the previousSignature argument
  lastSig,         \* the value of the latest getFirstRowSignature read
  refreshed,       \* what the call returned (Null before)
  reads,           \* history: number of getFirstRowSignature reads of this call
  changeSeen,      \* history: a read differed from the previousSignature argument
  \* ---- one call of a pure function (normalizeRow, the numeric parsers, ...) ----
  fpc,             \* "idle" before the call, "called" with the arguments chosen
  fIn,             \* the arguments of the call
  fOut,            \* what the call returned (Null before)
  \* ---- ProcessManager (src/props-cash-automation/electron/processManager.ts) ----
  activeChild,     \* private activeChild: 0 for null, else the child's number
  activeType,      \* private activeType: Null or the type of the last spawn
  children,        \* the child processes spawned so far: type, not yet exited,
                   \* close event delivered, error event delivered
  doneCalls,       \* history: the calls of doneCallback, with the child whose
                   \* listener made the call
  pmLog            \* history: the latest operation or event and what it found

runVars == <<previousSignature, tableSig, refreshArg, sigBefore, allPropsFile,
             noOptions, selection>>
scrapeVars == <<toScrape, i, attempt, pc, success, rows, results, errors, totalRows,
                session, events, runVars>>
lockVars == <<lockFile, ppc, browser, acquired, scraped, runResult>>
dbVars == <<prop_rows, scrape_runs, dbpc, dbSession, runId, allRows, offset,
            totalInserted, totalUpdated, persistResult, rowsBefore, again, lastWriter,
            statements>>
collVars == <<cpc, batchRows, seenSignatures, collected, stableCount, totalAttempts,
              returned, sawDuplicate, scrollTop, tableKind>>
sigVars == <<sigpc, sigRows, sigOut>>
refreshVars == <<rpc, now, deadline, prevArg, lastSig, refreshed, reads, changeSeen>>
discVars == <<dpc, tried, options, strategy, popupOpen, activations, overlap,
              lateActivation>>
mainVars == <<mpc, mSession, dbResult, result, runLog, exitCode>>
fnVars == <<fpc, fIn, fOut>>
pmVars == <<activeChild, activeType, children, doneCalls, pmLog>>
vars == <<scrapeVars, lockVars, dbVars, collVars, sigVars, refreshVars, mainVars,
          discVars, fnVars, pmVars>>

(***************************************************************************)
(* Generic helpers                                                         *)
(***************************************************************************)

\* A nullable value: <<>> is null / undefined, <<v>> is the value v.
Null == <<>>
Some(v) == <<v>>
IsNull(x) == x = <<>>

RECURSIVE SumLen(_)
\* sum of rows.length over a list of results
SumLen(rs) == IF rs = <<>> THEN 0 ELSE Len(Head(rs).rows) + SumLen(Tail(rs))

Range(s) == {s[k] : k \in DOMAIN s}

\* sequences over S without repetition, of length lo..hi
InjSeqs(S, lo, hi) ==
  UNION {{s \in [1..n -> S] : \A a, b \in 1..n : a # b => s[a] # s[b]} : n \in lo..hi}

(***************************************************************************)
(* Scrape orchestrator: scrapeNbaPropsForDate, the scrape loop             *)
(***************************************************************************)

SCRAPE_RETRY_COUNT == 3

\* Bounds of the orchestrator's inputs.
MaxProps == 2

\* The categories discovery can return (label, key = normalizePropKey(label)).
PropOptions ==
  {[label |-> "Pts", key |-> "pts"], [label |-> "Reb", key |-> "reb"],
   [label |-> "Pts+Reb", key |-> "pts_reb"]}

\* The row counts one collection pass can return in the model.
RowCounts == {0, 1, 50}

\* The rows of one collection pass, as far as the orchestrator looks at them:
\* a list whose length is rows.length.
RowsOfCount(n) == [k \in 1..n |-> k]

NoSession == [summary |-> <<>>]

Event(ev, opt, n) == [ev |-> ev, propKey |-> opt.key, attempt |-> n]

\* options.onlyPropLabel: absent, a label of another case, an unknown label
OnlyLabels == {Null, Some("PTS"), Some("Assists")}

\* String.prototype.toLowerCase on the labels of the model
ToLowerCase(str) ==
  CASE str \in {"Pts", "PTS"} -> "pts"
    [] str = "Reb" -> "reb"
    [] str = "Pts+Reb" -> "pts+reb"
    [] str = "Assists" -> "assists"
    [] OTHER -> str

\* the first n elements: slice(0, n)
SliceTo(seq, n) == [k \in 1..(IF n < Len(seq) THEN n ELSE Len(seq)) |-> seq[k]]

\* the session of an early return
EarlySession(errs) ==
  [results |-> <<>>,
   errors |-> errs,
   summary |-> [propsAttempted |-> 0, propsSucceeded |-> 0, rowsTotal |-> 0]]

\* return lastSig || previousSignature, the last line of waitForTableRefresh
RefreshResult(prev, sig) == IF sig # "" THEN sig ELSE prev

\* The pages selectPropOption can meet: a <select> with an option of exactly this
\* label, with an option that only contains the label, or without one; popup
\* triggers and prop-like buttons whose opened list has the option or not.
SelectPages ==
  {[select |-> "exact", trigger |-> "lists", button |-> "lists"],
   [select |-> "contains", trigger |-> "lists", button |-> "other"],
   [select |-> "none", trigger |-> "lists", button |-> "other"],
   [select |-> "none", trigger |-> "other", button |-> "lists"],
   [select |-> "none", trigger |-> "other", button |-> "other"]}

openDropdownAndSelect_ReturnsQuietly(pg) ==
  IF pg.select = "exact" THEN [activated |-> Some("A"), error |-> Null]
  ELSE [activated |-> Null, error |-> Null]

\* openDropdownAndSelect: strategy A (native select), B (popup triggers), C (broad
\* scan of buttons), else throw new Error('Could not select prop option: ...')
openDropdownAndSelect(pg) ==
  IF pg.select = "exact"
    THEN [activated |-> Some("A"), error |-> Null]
  ELSE IF pg.select = "contains"           \* sel.selectOption({ label }) rejects
    THEN [activated |-> Null, error |-> Some("selectOption failed")]
  ELSE IF pg.trigger = "lists"
    THEN [activated |-> Some("B"), error |-> Null]
  ELSE IF pg.button = "lists"
    THEN [activated |-> Some("C"), error |-> Null]
  ELSE [activated |-> Null, error |-> Some("Could not select prop option")]

\* await openDropdownAndSelect(page, option.label); await page.waitForTimeout(300)
selectPropOption(pg) == openDropdownAndSelect(pg)

\* the attempt has left the calls of selectPropOption and waitForTableRefresh
CallsOver ==
  /\ refreshArg' = Null /\ sigBefore' = Null /\ selection' = Null
  /\ UNCHANGED <<previousSignature, tableSig, allPropsFile, noOptions>>

ScrapeInit ==
  /\ toScrape = <<>>
  /\ i = 1
  /\ attempt = 1
  /\ pc = "discover"
  /\ success = FALSE
  /\ rows = <<>>
  /\ results = <<>>
  /\ errors = <<>>
  /\ totalRows = 0
  /\ session = NoSession
  /\ events = <<>>
  /\ previousSignature = ""
  /\ tableSig = "s0"
  /\ refreshArg = Null
  /\ sigBefore = Null
  /\ allPropsFile = Null
  /\ noOptions = FALSE
  /\ selection = Null

\* const { options: propOptions } = await discoverPropOptions(page, ...);
\* if (options.discover) return {...}; if (propOptions.length === 0) return {...};
\* toScrape = filter by onlyPropLabel (return {...} when empty), slice(0, limitProps);
\* let previousSignature = await getFirstRowSignature(page)
Discover ==
  /\ pc = "discover"
  /\ \E found \in InjSeqs(PropOptions, 0, MaxProps), discover \in BOOLEAN,
        only \in OnlyLabels, limitProps \in {0, 1} :
       LET filtered == IF IsNull(only) THEN found
                       ELSE SelectSeq(found,
                              LAMBDA o : ToLowerCase(o.label) = ToLowerCase(only[1]))
           limited == IF limitProps > 0 THEN SliceTo(filtered, limitProps) ELSE filtered
           early(errs) == /\ session' = EarlySession(errs)
                          /\ pc' = "done"
                          /\ UNCHANGED <<toScrape, previousSignature>>
       IN /\ noOptions' = (Len(found) = 0)
          /\ IF discover
               THEN early(<<>>)
             ELSE IF Len(found) = 0
               THEN early(<<[propKey |-> "discovery", propLabel |-> "discovery",
                             error |-> "No prop options found"]>>)
             ELSE IF ~IsNull(only) /\ Len(filtered) = 0
               THEN early(<<[propKey |-> "filter", propLabel |-> only[1],
                             error |-> "Prop not found"]>>)
             ELSE /\ toScrape' = limited
                  /\ previousSignature' = tableSig
                  /\ pc' = "for"
                  /\ UNCHANGED session
  /\ UNCHANGED <<i, attempt, success, rows, results, errors, totalRows, events,
                 tableSig, refreshArg, sigBefore, allPropsFile, selection>>

option == toScrape[i]

\* for (let i = 0; i < toScrape.length; i++) { ...; let success = false;
\*   for (let attempt = 1; ...
ForHead ==
  /\ pc = "for"
  /\ IF i <= Len(toScrape)
       THEN /\ success' = FALSE
            /\ attempt' = 1
            /\ pc' = "attempt"
       ELSE /\ pc' = "finalize"
            /\ UNCHANGED <<success, attempt>>
  /\ UNCHANGED <<toScrape, i, rows, results, errors, totalRows, session, events>>
  /\ UNCHANGED runVars

\* for (...; attempt <= SCRAPE_RETRY_COUNT; ...) { try {
AttemptHead ==
  /\ pc = "attempt"
  /\ IF attempt <= SCRAPE_RETRY_COUNT
       THEN /\ pc' = "select"
            /\ events' = Append(events, Event("start", option, attempt))
       ELSE /\ pc' = "after"
            /\ UNCHANGED events
  /\ UNCHANGED <<toScrape, i, attempt, success, rows, results, errors, totalRows,
                 session>>
  /\ UNCHANGED runVars

\* await selectPropOption(page, option); await waitForTableRefresh(...)
\* selectPropOption throws when no strategy locates the option.
SelectProp ==
  /\ pc = "select"
  /\ \E pg \in SelectPages :
       LET r == selectPropOption(pg) IN
         /\ selection' = Some([page |-> pg, result |-> r])
         /\ IF IsNull(r.error)
              THEN \E shown \in {"", option.key} :
                     /\ sigBefore' = Some(tableSig)
                     /\ tableSig' = shown
                     /\ refreshArg' = Some(previousSignature)
                     /\ previousSignature' = RefreshResult(previousSignature, shown)
                     /\ pc' = "headers"
              ELSE /\ pc' = "catch"
                   /\ UNCHANGED <<previousSignature, tableSig, refreshArg, sigBefore>>
  /\ UNCHANGED <<toScrape, i, attempt, success, rows, results, errors, totalRows,
                 session, events, allPropsFile, noOptions>>

\* const headers = await readTableHeaders(page);
\* if (headers.length === 0) throw new Error('No table headers found ...')
ReadHeaders ==
  /\ pc = "headers"
  /\ \E nonEmpty \in BOOLEAN : pc' = IF nonEmpty THEN "collect" ELSE "catch"
  /\ UNCHANGED <<toScrape, i, attempt, success, rows, results, errors, totalRows,
                 session, events>>
  /\ CallsOver

\* const rows = await collectAllRowsByScrolling(...)  (a page call may reject)
CollectRows ==
  /\ pc = "collect"
  /\ \/ \E n \in RowCounts : rows' = RowsOfCount(n) /\ pc' = "write"
     \/ rows' = rows /\ pc' = "catch"
  /\ UNCHANGED <<toScrape, i, attempt, success, results, errors, totalRows,
                 session, events>>
  /\ UNCHANGED runVars

AddRows_Overwrite(total, rs) == Len(rs)

\* totalRows += rows.length
AddRows(total, rs) == total + Len(rs)

\* writePropJson; writePropCsv (fs.writeFileSync may throw);
\* results.push(result); totalRows += rows.length; success = true; break
WriteAndPush ==
  /\ pc = "write"
  /\ \/ /\ results' = Append(results, [propKey |-> option.key,
                                       propLabel |-> option.label,
                                       rows |-> rows, rowCount |-> Len(rows)])
        /\ totalRows' = AddRows(totalRows, rows)
        /\ success' = TRUE
        /\ events' = Append(events, Event("ok", option, attempt))
        /\ pc' = "after"
     \/ /\ pc' = "catch"
        /\ UNCHANGED <<results, totalRows, success, events>>
  /\ UNCHANGED <<toScrape, i, attempt, rows, errors, session>>
  /\ UNCHANGED runVars

CatchAttempt_PauseAlways ==
  /\ pc = "catch"
  /\ events' = Append(events, Event("fail", option, attempt))
  /\ pc' = "pause"
  /\ UNCHANGED <<toScrape, i, attempt, success, rows, results, errors, totalRows,
                 session>>
  /\ CallsOver

\* } catch (err) { ...; if (attempt < SCRAPE_RETRY_COUNT) { await
\*   page.waitForTimeout(2000) } }
CatchAttempt ==
  /\ pc = "catch"
  /\ events' = Append(events, Event("fail", option, attempt))
  /\ pc' = IF attempt < SCRAPE_RETRY_COUNT THEN "pause" ELSE "next_attempt"
  /\ UNCHANGED <<toScrape, i, attempt, success, rows, results, errors, totalRows,
                 session>>
  /\ CallsOver

\* the 2 s timer of page.waitForTimeout(2000) elapses (the call rejects only when
\* the page is gone, which ends the run like a kill of the process)
Pause ==
  /\ pc = "pause"
  /\ events' = Append(events, Event("pause", option, attempt))
  /\ pc' = "next_attempt"
  /\ UNCHANGED <<toScrape, i, attempt, success, rows, results, errors, totalRows,
                 session>>
  /\ UNCHANGED runVars

\* attempt++
NextAttempt ==
  /\ pc = "next_attempt"
  /\ attempt' = attempt + 1
  /\ pc' = "attempt"
  /\ UNCHANGED <<toScrape, i, success, rows, results, errors, totalRows, session,
                 events>>
  /\ UNCHANGED runVars

AfterAttempts_Abort ==
  /\ pc = "after"
  /\ IF ~success
       THEN /\ errors' = Append(errors, [propKey |-> option.key,
                                         propLabel |-> option.label,
                                         error |-> "Failed after 3 attempts"])
            /\ events' = Append(events, Event("error", option, 0))
            /\ i' = Len(toScrape) + 1
       ELSE /\ i' = i + 1
            /\ UNCHANGED <<errors, events>>
  /\ pc' = "for"
  /\ UNCHANGED <<toScrape, attempt, success, rows, results, totalRows, session>>
  /\ UNCHANGED runVars

\* if (!success) { errors.push({...}) }   and the for loop's i++
AfterAttempts ==
  /\ pc = "after"
  /\ IF ~success
       THEN /\ errors' = Append(errors, [propKey |-> option.key,
                                         propLabel |-> option.label,
                                         error |-> "Failed after 3 attempts"])
            /\ events' = Append(events, Event("error", option, 0))
       ELSE UNCHANGED <<errors, events>>
  /\ i' = i + 1
  /\ pc' = "for"
  /\ UNCHANGED <<toScrape, attempt, success, rows, results, totalRows, session>>
  /\ UNCHANGED runVars

\* const session = { ..., results, errors, summary: {...} };
\* writeAllPropsJson(dateISO, session); return session
Finalize ==
  /\ pc = "finalize"
  /\ session' = [results |-> results,
                 errors |-> errors,
                 summary |-> [propsAttempted |-> Len(toScrape),
                              propsSucceeded |-> Len(results),
                              rowsTotal |-> totalRows]]
  /\ allPropsFile' = Some(session')
  /\ pc' = "done"
  /\ UNCHANGED <<toScrape, i, attempt, success, rows, results, errors, totalRows,
                 events, previousSignature, tableSig, refreshArg, sigBefore,
                 noOptions, selection>>

(***************************************************************************)
(* Scraper CLI: main(), acquireLock(), releaseLock() and the lock file     *)
(***************************************************************************)

\* Number of scraper processes that can be started concurrently.
NProcs == 2

Procs == 1..NProcs

Terminated == {"exited", "crashed", "killed"}

LockInit ==
  /\ lockFile = Null
  /\ ppc = [p \in Procs |-> "idle"]
  /\ browser = [p \in Procs |-> FALSE]
  /\ acquired = [p \in Procs |-> FALSE]
  /\ scraped = [p \in Procs |-> FALSE]
  /\ runResult = [p \in Procs |-> "none"]

acquireLock_NoExclusive(p) ==
  /\ lockFile' = Some(p)
  /\ acquired' = [acquired EXCEPT ![p] = TRUE]
  /\ ppc' = [ppc EXCEPT ![p] = "launch"]
  /\ UNCHANGED runResult

\* if (!acquireLock()) { return { success: false, ... } }
\* acquireLock: fs.writeFileSync(LOCK_PATH, pid, { flag: 'wx' }) creates the file
\* atomically and fails when it exists.
acquireLock(p) ==
  IF lockFile = Null
    THEN /\ lockFile' = Some(p)
         /\ acquired' = [acquired EXCEPT ![p] = TRUE]
         /\ ppc' = [ppc EXCEPT ![p] = "launch"]
         /\ UNCHANGED runResult
    ELSE \* return { success: false, error: 'Another scraper instance is running' }
         /\ ppc' = [ppc EXCEPT ![p] = "exited"]
         /\ runResult' = [runResult EXCEPT ![p] = "lock_held"]
         /\ UNCHANGED <<lockFile, acquired>>

\* releaseLock: fs.unlinkSync(LOCK_PATH), errors swallowed
releaseLock == lockFile' = Null

\* A scraper process is started (by the dashboard, the scheduler or a shell);
\* main() runs up to the storageState pre-flight check.
StartMain(p) ==
  /\ ppc[p] \in {"idle"} \cup Terminated
  /\ browser' = [browser EXCEPT ![p] = FALSE]
  /\ acquired' = [acquired EXCEPT ![p] = FALSE]
  /\ scraped' = [scraped EXCEPT ![p] = FALSE]
  /\ \E storageExists \in BOOLEAN :
       IF storageExists
         THEN /\ ppc' = [ppc EXCEPT ![p] = "lock"]
              /\ runResult' = [runResult EXCEPT ![p] = "none"]
         ELSE \* if (!fs.existsSync(storagePath)) return { success: false, ... }
              /\ ppc' = [ppc EXCEPT ![p] = "exited"]
              /\ runResult' = [runResult EXCEPT ![p] = "error"]
  /\ UNCHANGED lockFile

TryLock(p) ==
  /\ ppc[p] = "lock"
  /\ acquireLock(p)
  /\ UNCHANGED <<browser, scraped>>

\* try { browser = await chromium.launch(...)
Launch(p) ==
  /\ ppc[p] = "launch"
  /\ \E ok \in BOOLEAN :
       IF ok
         THEN /\ browser' = [browser EXCEPT ![p] = TRUE]
              /\ ppc' = [ppc EXCEPT ![p] = "verify"]
              /\ UNCHANGED runResult
         ELSE \* launch rejects: catch returns { success: false }, then finally
              /\ ppc' = [ppc EXCEPT ![p] = "finally"]
              /\ runResult' = [runResult EXCEPT ![p] = "error"]
              /\ UNCHANGED browser
  /\ UNCHANGED <<lockFile, acquired, scraped>>

\* newContext, newPage, goto, verifySession: valid, expired (early return) or a throw
Verify(p) ==
  /\ ppc[p] = "verify"
  /\ \E outcome \in {"valid", "expired", "throws"} :
       IF outcome = "valid"
         THEN /\ ppc' = [ppc EXCEPT ![p] = "scrape"]
              /\ UNCHANGED runResult
         ELSE /\ ppc' = [ppc EXCEPT ![p] = "finally"]
              /\ runResult' = [runResult EXCEPT ![p] = "error"]
  /\ UNCHANGED <<lockFile, browser, acquired, scraped>>

\* navigation to the NBA page, scrapeNbaPropsForDate, persistScrapeSession, run log:
\* main returns the result, or something throws and the catch returns an error
ScrapeAndPersist(p) ==
  /\ ppc[p] = "scrape"
  /\ \E reached \in BOOLEAN, res \in {"ok", "error"} :
       /\ scraped' = [scraped EXCEPT ![p] = reached]
       /\ runResult' = [runResult EXCEPT ![p] = IF reached THEN res ELSE "error"]
  /\ ppc' = [ppc EXCEPT ![p] = "finally"]
  /\ UNCHANGED <<lockFile, browser, acquired>>

\* finally { if (browser) await browser.close();
\* A rejection of browser.close() leaves the finally block at once: main() rejects
\* and the process ends on the unhandled rejection.
FinallyClose(p) ==
  /\ ppc[p] = "finally"
  /\ IF browser[p]
       THEN \E ok \in BOOLEAN :
              /\ ppc' = [ppc EXCEPT ![p] = IF ok THEN "closePool" ELSE "crashed"]
              /\ runResult' = [runResult EXCEPT ![p] = IF ok THEN @ ELSE "error"]
       ELSE /\ ppc' = [ppc EXCEPT ![p] = "closePool"]
            /\ UNCHANGED runResult
  /\ UNCHANGED <<lockFile, browser, acquired, scraped>>

\* await closePool().catch(() => {});
FinallyClosePool(p) ==
  /\ ppc[p] = "closePool"
  /\ ppc' = [ppc EXCEPT ![p] = "release"]
  /\ UNCHANGED <<lockFile, browser, acquired, scraped, runResult>>

\* releaseLock(); }
FinallyRelease(p) ==
  /\ ppc[p] = "release"
  /\ releaseLock
  /\ ppc' = [ppc EXCEPT ![p] = "exited"]
  /\ UNCHANGED <<browser, acquired, scraped, runResult>>

\* The host terminates the child (ProcessManager.killActive: child.kill(), SIGTERM;
\* the scripts install no signal handler), at any point of its run.
KillActive(p) ==
  /\ ppc[p] \notin {"idle"} \cup Terminated
  /\ ppc' = [ppc EXCEPT ![p] = "killed"]
  /\ runResult' = [runResult EXCEPT ![p] = "error"]
  /\ UNCHANGED <<lockFile, browser, acquired, scraped>>

(***************************************************************************)
(* Rows and row signatures (helpers.ts: PropRow, makeRowSignature)         *)
(***************************************************************************)

RECURSIVE Join(_, _)
\* parts.join(sep)
Join(parts, sep) ==
  IF parts = <<>> THEN ""
  ELSE IF Len(parts) = 1 THEN parts[1]
  ELSE parts[1] \o sep \o Join(Tail(parts), sep)

\* Object.values(raw): raw is kept as the list of its (header, text) entries in
\* insertion order
ObjectValues(raw) == [k \in DOMAIN raw |-> raw[k].v]

\* arr.slice(0, n)
Take(s, n) == SubSeq(s, 1, IF Len(s) < n THEN Len(s) ELSE n)

\* String(n) of a number that is present
OptStr(x) == IF IsNull(x) THEN <<>> ELSE <<ToString(x[1])>>

makeRowSignature_AlwaysRaw(propKey, row) ==
  LET parts == <<propKey>>
               \o (IF row.playerName # "" THEN <<row.playerName>> ELSE <<>>)
               \o (IF ~IsNull(row.team) THEN <<row.team[1]>> ELSE <<>>)
               \o OptStr(row.line) \o OptStr(row.oddsOver) \o OptStr(row.oddsUnder)
  IN Join(parts \o Take(ObjectValues(row.raw), 5), "|")

\* makeRowSignature(propKey, row): the fields that are present, joined by '|'; with
\* at most propKey and one more part, the first five raw values are appended
makeRowSignature(propKey, row) ==
  LET parts == <<propKey>>
               \o (IF row.playerName # "" THEN <<row.playerName>> ELSE <<>>)
               \o (IF ~IsNull(row.team) THEN <<row.team[1]>> ELSE <<>>)
               \o OptStr(row.line) \o OptStr(row.oddsOver) \o OptStr(row.oddsUnder)
      withRaw == IF Len(parts) <= 2
                   THEN parts \o Take(ObjectValues(row.raw), 5)
                   ELSE parts
  IN Join(withRaw, "|")

(***************************************************************************)
(* Persistence: persistScrapeSession, upsertBatch, table prop_rows         *)
(***************************************************************************)

\* const BATCH_SIZE = 500 in the source. The model keeps the chunk loop and scales
\* the chunk size down so that a session of MaxSessionRows rows spans several chunks.
BATCH_SIZE == 2

\* COALESCE(line, -999) etc. in the unique index and the ON CONFLICT target
SENTINEL == -999

\* Bounds of the persistence inputs.
MaxSessionRows == 3
MaxRuns == 2

DateISO == "2026-02-07"

\* The rows a session can hold in the model: one player, with the line absent,
\* equal to the sentinel, or 5, and two versions of the columns outside the key.
PoolRow(opt, line, v) ==
  LET base == [propKey |-> opt.key,
               propLabel |-> opt.label,
               dateISO |-> DateISO,
               playerName |-> "A",
               team |-> IF v = 1 THEN Null ELSE Some("BOS"),
               status |-> IF v = 1 THEN Null ELSE Some("OUT"),
               line |-> line,
               oddsOver |-> Null,
               oddsUnder |-> Null,
               projection |-> IF v = 1 THEN Null ELSE Some(7),
               diff |-> IF v = 1 THEN Null ELSE Some(2),
               dvp |-> IF v = 1 THEN Null ELSE Some("12th"),
               hitRates |-> IF v = 1 THEN Null ELSE Some(<<[h |-> "L5", v |-> Some(60)]>>),
               raw |-> <<[h |-> "Player", v |-> "A"],
                         [h |-> "Proj", v |-> IF v = 1 THEN "" ELSE "7"]>>,
               rowSignature |-> ""]
  IN [base EXCEPT !.rowSignature = makeRowSignature(opt.key, base)]

\* "Pts" and "PTS" are two labels of the category with key pts (normalizePropKey)
PtsOption == [label |-> "Pts", key |-> "pts"]
PtsOptionUpper == [label |-> "PTS", key |-> "pts"]
RebOption == [label |-> "Reb", key |-> "reb"]

\* (line, version) of the rows of the model: no line in two versions, the sentinel
\* as a line, and a line of 5
PoolShapes == {<<Null, 1>>, <<Null, 2>>, <<Some(SENTINEL), 2>>, <<Some(5), 1>>}

EmptyResult(opt) == [propKey |-> opt.key, propLabel |-> opt.label, rows |-> <<>>,
                     rowCount |-> 0]

\* One category's results: rows of that category under its label, no two with the
\* same signature (the collector deduplicates by signature).
ResultsOf(opt, shapes, n) ==
  {[propKey |-> opt.key, propLabel |-> opt.label, rows |-> rs, rowCount |-> Len(rs)] :
     rs \in InjSeqs({PoolRow(opt, sh[1], sh[2]) : sh \in shapes}, 1, n)}
    \cup {EmptyResult(opt)}

PtsResults ==
  ResultsOf(PtsOption, PoolShapes, MaxSessionRows)
    \cup ResultsOf(PtsOptionUpper, {<<Null, 1>>}, 1)
RebResults == ResultsOf(RebOption, {<<Null, 1>>}, 1)

\* The sessions handed to persistScrapeSession: results of distinct categories.
Sessions ==
  LET lists == {<<>>} \cup {<<a>> : a \in PtsResults \cup RebResults}
               \cup {<<a, b>> : a \in PtsResults, b \in RebResults}
               \cup {<<b, a>> : a \in PtsResults, b \in RebResults}
  IN {[dateISO |-> DateISO, results |-> rl] :
        rl \in {l \in lists : SumLen(l) <= MaxSessionRows}}

RECURSIVE Flatten(_)
\* for (const result of session.results) for (const row of result.rows) allRows.push(row)
Flatten(rs) == IF rs = <<>> THEN <<>> ELSE Head(rs).rows \o Flatten(Tail(rs))

Coalesce(x, d) == IF IsNull(x) THEN d ELSE x[1]

\* The expression list of uq_prop_rows_natural_key and of ON CONFLICT (...)
ConflictKey(t) ==
  <<t.sport, t.date_iso, t.prop_key, t.player_name,
    Coalesce(t.line, SENTINEL), Coalesce(t.odds_over, SENTINEL),
    Coalesce(t.odds_under, SENTINEL)>>

\* JSON.stringify of a value
JsonStringify(x) == ToString(x)

\* The 17 parameters bound for one row, as the tuple proposed for insertion
Proposed(rid, sport, row) ==
  [run_id |-> rid,
   sport |-> sport,
   date_iso |-> row.dateISO,
   prop_key |-> row.propKey,
   prop_label |-> row.propLabel,
   player_name |-> row.playerName,
   team |-> row.team,
   status |-> row.status,
   line |-> row.line,
   odds_over |-> row.oddsOver,
   odds_under |-> row.oddsUnder,
   projection |-> row.projection,
   diff |-> row.diff,
   dvp |-> row.dvp,
   hit_rates |-> IF IsNull(row.hitRates) THEN Null ELSE Some(JsonStringify(row.hitRates[1])),
   raw |-> JsonStringify(row.raw),
   row_signature |-> row.rowSignature]

\* The natural key under which a session row is stored
NatKey(row) == ConflictKey(Proposed(0, "nba", row))

DoUpdateSet_KeepRun(t, ex) ==
  [t EXCEPT !.prop_label = ex.prop_label, !.team = ex.team,
            !.status = ex.status, !.projection = ex.projection, !.diff = ex.diff,
            !.dvp = ex.dvp, !.hit_rates = ex.hit_rates, !.raw = ex.raw,
            !.row_signature = ex.row_signature]

\* DO UPDATE SET run_id = EXCLUDED.run_id, prop_label = ..., row_signature = ...
DoUpdateSet(t, ex) ==
  [t EXCEPT !.run_id = ex.run_id, !.prop_label = ex.prop_label, !.team = ex.team,
            !.status = ex.status, !.projection = ex.projection, !.diff = ex.diff,
            !.dvp = ex.dvp, !.hit_rates = ex.hit_rates, !.raw = ex.raw,
            !.row_signature = ex.row_signature]

RECURSIVE UpsertRows(_, _, _, _)
\* INSERT INTO prop_rows ... VALUES (...), (...) ON CONFLICT (...) DO UPDATE SET ...
\* RETURNING (xmax = 0) AS was_inserted, row by row over the proposed tuples.
\* acc = [ok, table, touched, flags]: a proposed tuple whose conflict key was
\* already inserted or updated by this same statement makes the statement fail
\* ("ON CONFLICT DO UPDATE command cannot affect row a second time") and the
\* statement then changes nothing.
UpsertRows(acc, rid, sport, batch) ==
  IF batch = <<>> \/ ~acc.ok THEN acc
  ELSE
    LET ex == Proposed(rid, sport, Head(batch))
        k == ConflictKey(ex)
        hit == {t \in acc.table : ConflictKey(t) = k}
    IN IF k \in acc.touched
         THEN [acc EXCEPT !.ok = FALSE]
       ELSE IF hit # {}
         THEN UpsertRows([ok |-> TRUE,
                          table |-> (acc.table \ hit)
                                      \cup {DoUpdateSet(t, ex) : t \in hit},
                          touched |-> acc.touched \cup {k},
                          flags |-> Append(acc.flags, FALSE)],
                         rid, sport, Tail(batch))
       ELSE UpsertRows([ok |-> TRUE,
                        table |-> acc.table \cup {ex},
                        touched |-> acc.touched \cup {k},
                        flags |-> Append(acc.flags, TRUE)],
                       rid, sport, Tail(batch))

CountFlag(flags, b) == Cardinality({k \in DOMAIN flags : flags[k] = b})

\* a statement that keeps the rows written before the one that made it fail
upsertBatch_Partial(table, rid, sport, batch) ==
  LET res == UpsertRows([ok |-> TRUE, table |-> table, touched |-> {}, flags |-> <<>>],
                        rid, sport, batch)
  IN [ok |-> res.ok, table |-> res.table,
      inserted |-> CountFlag(res.flags, TRUE),
      updated |-> CountFlag(res.flags, FALSE)]

upsertBatch_InsertOnly(table, rid, sport, batch) ==
  [ok |-> TRUE, table |-> table \cup {Proposed(rid, sport, r) : r \in Range(batch)},
   inserted |-> Len(batch), updated |-> 0]

\* upsertBatch(runId, sport, rows) against the table: the statement's outcome and
\* the counts of was_inserted / updated rows it returns
upsertBatch(table, rid, sport, batch) ==
  LET res == UpsertRows([ok |-> TRUE, table |-> table, touched |-> {}, flags |-> <<>>],
                        rid, sport, batch)
  IN IF res.ok
       THEN [ok |-> TRUE, table |-> res.table,
             inserted |-> CountFlag(res.flags, TRUE),
             updated |-> CountFlag(res.flags, FALSE)]
       ELSE [ok |-> FALSE, table |-> table, inserted |-> 0, updated |-> 0]

NoResult == [runId |-> 0, rowsPersisted |-> -1, rowsInserted |-> -1, rowsUpdated |-> -1]

DbInit ==
  /\ prop_rows = {}
  /\ scrape_runs = {}
  /\ dbpc = "idle"
  /\ dbSession = [dateISO |-> DateISO, results |-> <<>>]
  /\ runId = 0
  /\ allRows = <<>>
  /\ offset = 0
  /\ totalInserted = 0
  /\ totalUpdated = 0
  /\ persistResult = NoResult
  /\ rowsBefore = {}
  /\ again = "no"
  /\ lastWriter = <<>>
  /\ statements = <<>>

\* a slice that runs to the end of the array
Slice_ToEnd(s, from, to) == SubSeq(s, from + 1, Len(s))

\* const COLS_PER_ROW = 17
COLS_PER_ROW == 17

\* the column list of INSERT INTO prop_rows (...)
InsertColumns ==
  <<"run_id", "sport", "date_iso", "prop_key", "prop_label", "player_name", "team",
    "status", "line", "odds_over", "odds_under", "projection", "diff", "dvp",
    "hit_rates", "raw", "row_signature">>

\* params.push(runId, sport, row.dateISO, ..., row.rowSignature) for one row
RowParams(rid, sport, row) ==
  <<rid, sport, row.dateISO, row.propKey, row.propLabel, row.playerName, row.team,
    row.status, row.line, row.oddsOver, row.oddsUnder, row.projection, row.diff,
    row.dvp,
    IF IsNull(row.hitRates) THEN Null ELSE Some(JsonStringify(row.hitRates[1])),
    JsonStringify(row.raw), row.rowSignature>>

\* ($offset+1, ..., $offset+17) with offset = i * COLS_PER_ROW: the placeholder
\* numbers of the VALUES clause of row n (n counts from 0, the source's i)
ValuesClause(n) == [k \in 1..COLS_PER_ROW |-> n * COLS_PER_ROW + k]

RECURSIVE AllParams(_, _, _)
AllParams(rid, sport, batch) ==
  IF batch = <<>> THEN <<>>
  ELSE RowParams(rid, sport, Head(batch)) \o AllParams(rid, sport, Tail(batch))

\* the statement upsertBatch builds: its VALUES clauses and its params array
BuildStatement(rid, sport, batch) ==
  [rid |-> rid,
   rows |-> batch,
   valuesClauses |-> [r \in 1..Len(batch) |-> ValuesClause(r - 1)],
   params |-> AllParams(rid, sport, batch)]

\* allRows.slice(i, i + BATCH_SIZE)
Slice(s, from, to) == SubSeq(s, from + 1, IF to < Len(s) THEN to ELSE Len(s))

\* The caller hands a session to persistScrapeSession; the scrape_runs row is
\* inserted (RETURNING id), the rows are flattened, and a session without rows
\* returns zero counts at once.
PersistStart(s) ==
  /\ dbpc \in {"idle", "returned", "thrown"}
  /\ Cardinality(scrape_runs) < MaxRuns
  /\ LET rid == Cardinality(scrape_runs) + 1
         flat == Flatten(s.results)
     IN /\ scrape_runs' = scrape_runs \cup {rid}
        /\ runId' = rid
        /\ allRows' = flat
        /\ IF Len(flat) = 0
             THEN /\ persistResult' = [runId |-> rid, rowsPersisted |-> 0,
                                       rowsInserted |-> 0, rowsUpdated |-> 0]
                  /\ dbpc' = "returned"
             ELSE /\ persistResult' = NoResult
                  /\ dbpc' = "chunk"
  /\ dbSession' = s
  /\ again' = (IF dbpc # "idle" /\ s = dbSession THEN dbpc ELSE "no")
  /\ rowsBefore' = prop_rows
  /\ offset' = 0
  /\ totalInserted' = 0
  /\ totalUpdated' = 0
  /\ statements' = <<>>
  /\ UNCHANGED <<prop_rows, lastWriter>>

\* lastWriter after a statement that wrote the keys of batch under run rid
Wrote(lw, rid, batch) ==
  LET ks == {NatKey(r) : r \in Range(batch)}
  IN [k \in DOMAIN lw \cup ks |-> IF k \in ks THEN rid ELSE lw[k]]

\* One iteration of  for (let i = 0; i < allRows.length; i += BATCH_SIZE):
\* the chunk's upsert statement succeeds, or it is rejected and the call throws.
UpsertChunk ==
  /\ dbpc = "chunk"
  /\ offset < Len(allRows)
  /\ \E rejected \in BOOLEAN :   \* the server or the connection rejects the query
       LET batch == Slice(allRows, offset, offset + BATCH_SIZE)
           res == upsertBatch(prop_rows, runId, "nba", batch)
       IN /\ statements' = Append(statements, BuildStatement(runId, "nba", batch))
          /\ IF res.ok /\ ~rejected
               THEN /\ prop_rows' = res.table
                    /\ totalInserted' = totalInserted + res.inserted
                    /\ totalUpdated' = totalUpdated + res.updated
                    /\ offset' = offset + BATCH_SIZE
                    /\ lastWriter' = Wrote(lastWriter, runId, batch)
                    /\ UNCHANGED dbpc
               ELSE /\ dbpc' = "thrown"
                    /\ prop_rows' = IF rejected THEN prop_rows ELSE res.table
                    /\ UNCHANGED <<totalInserted, totalUpdated, offset, lastWriter>>
  /\ UNCHANGED <<scrape_runs, dbSession, runId, allRows, persistResult, rowsBefore,
                 again>>

\* return { runId, rowsPersisted: allRows.length, rowsInserted, rowsUpdated, ... }
PersistReturn ==
  /\ dbpc = "chunk"
  /\ offset >= Len(allRows)
  /\ persistResult' = [runId |-> runId, rowsPersisted |-> Len(allRows),
                       rowsInserted |-> totalInserted, rowsUpdated |-> totalUpdated]
  /\ dbpc' = "returned"
  /\ UNCHANGED <<prop_rows, scrape_runs, dbSession, runId, allRows, offset,
                 totalInserted, totalUpdated, rowsBefore, again, lastWriter,
                 statements>>

(***************************************************************************)
(* Row normaliser and row collector: normalizeRow, collectAllRowsByScrolling*)
(***************************************************************************)

MAX_SCROLL_ATTEMPTS == 120
STABLE_SCROLL_THRESHOLD == 3

\* Largest number of rows one read of the table returns in the model.
MaxVisible == 2
\* the height of the table content, in scroll steps
ScrollHeight == 2

\* HEADER_MAP: first pattern (case-insensitive) that matches the header text, over
\* the header texts of the model
HeaderField(h) ==
  CASE h \in {"Player", "PLAYER", "Name"} -> "playerName"
    [] h \in {"Team", "TEAM"} -> "team"
    [] h \in {"L", "Line", "O/U"} -> "line"
    [] h \in {"Over", "O"} -> "oddsOver"
    [] h \in {"Under", "U"} -> "oddsUnder"
    [] h \in {"Proj", "PROJ", "Projection"} -> "projection"
    [] h \in {"Diff", "Edge"} -> "diff"
    [] h \in {"DvP", "DVP"} -> "dvp"
    [] h \in {"Status"} -> "status"
    [] OTHER -> "none"

\* The numeric cell texts of the model
NumericTexts == {"5", "7", "9"}

\* Texts as the sequence of their characters. "u2212" is the Unicode minus sign.
DigitChars == <<"0", "1", "2", "3", "4", "5", "6", "7", "8", "9">>
IsDigit(c) == \E k \in 1..10 : DigitChars[k] = c
DigitValue(c) == (CHOOSE k \in 1..10 : DigitChars[k] = c) - 1

\* the characters of a cell text of the model; a text without digit, sign or dot
\* stands as one letter, every parser strips it whole
TextChars(text) ==
  CASE text = "" -> <<>>
    [] text \in NumericTexts -> <<text>>
    [] text = "-110" -> <<"-", "1", "1", "0">>
    [] OTHER -> <<"A">>

RECURSIVE DigitsValue(_)
\* the value of a sequence of decimal digits (0 for none)
DigitsValue(ds) ==
  IF ds = <<>> THEN 0
  ELSE 10 * DigitsValue(SubSeq(ds, 1, Len(ds) - 1)) + DigitValue(ds[Len(ds)])

RECURSIVE StripTrailingZeros(_)
StripTrailingZeros(ds) ==
  IF ds # <<>> /\ ds[Len(ds)] = "0" THEN StripTrailingZeros(SubSeq(ds, 1, Len(ds) - 1))
  ELSE ds

\* Number(cleaned) for a string of digits, dots and signs, followed by
\* Number.isFinite(n) ? n : null. A string that is no numeric literal gives NaN
\* and so Null. An integer is a TLA+ integer, another value the record of its
\* sign, integer part and fraction digits.
Number(cleaned) ==
  LET signed == cleaned # <<>> /\ cleaned[1] \in {"-", "+"}
      body == IF signed THEN Tail(cleaned) ELSE cleaned
      dots == {k \in 1..Len(body) : body[k] = "."}
      literal == /\ \A k \in 1..Len(body) : IsDigit(body[k]) \/ body[k] = "."
                 /\ Cardinality(dots) <= 1
                 /\ \E k \in 1..Len(body) : IsDigit(body[k])
      dot == IF dots = {} THEN Len(body) + 1 ELSE CHOOSE k \in dots : TRUE
      int == DigitsValue(SubSeq(body, 1, dot - 1))
      frac == StripTrailingZeros(SubSeq(body, dot + 1, Len(body)))
      neg == signed /\ cleaned[1] = "-"
  IN IF cleaned = <<>> THEN Some(0)
     ELSE IF ~literal THEN Null
     ELSE IF frac = <<>> THEN Some(IF neg THEN 0 - int ELSE int)
     ELSE Some([neg |-> neg, int |-> int, frac |-> frac])

RECURSIVE Trim(_)
\* text.trim()
Trim(cs) ==
  IF cs # <<>> /\ cs[1] = " " THEN Trim(Tail(cs))
  ELSE IF cs # <<>> /\ cs[Len(cs)] = " " THEN Trim(SubSeq(cs, 1, Len(cs) - 1))
  ELSE cs

\* .replace(/−/g, '-')
ReplaceUnicodeMinus(cs) == [k \in 1..Len(cs) |-> IF cs[k] = "u2212" THEN "-" ELSE cs[k]]

\* .replace(/[^...]/g, ''): only the characters of the class stay
Keep(cs, class) == SelectSeq(cs, LAMBDA c : IsDigit(c) \/ c \in class)

RECURSIVE DropSpaces(_)
DropSpaces(cs) == IF cs # <<>> /\ cs[1] = " " THEN DropSpaces(Tail(cs)) ELSE cs

\* .replace(/^[OUou]\s*/i, '')
StripOverUnder(cs) ==
  IF cs # <<>> /\ cs[1] \in {"O", "U", "o", "u"} THEN DropSpaces(Tail(cs)) ELSE cs

\* parseOdds(text), text as its characters
parseOdds(text) ==
  IF text = <<>> THEN Null
  ELSE LET cleaned == Keep(ReplaceUnicodeMinus(Trim(text)), {".", "+", "-"})
       IN IF cleaned \in {<<>>, <<"-">>, <<"+">>} THEN Null ELSE Number(cleaned)

\* parseLine(text): the Unicode minus is not replaced here, the class removes it
parseLine(text) ==
  IF text = <<>> THEN Null
  ELSE LET cleaned == Keep(StripOverUnder(Trim(text)), {".", "-"})
       IN IF cleaned = <<>> THEN Null ELSE Number(cleaned)

\* parseNumber(text)
parseNumber(text) ==
  IF text = <<>> THEN Null
  ELSE LET noPercent == SelectSeq(ReplaceUnicodeMinus(Trim(text)), LAMBDA c : c # "%")
           noComma == SelectSeq(noPercent, LAMBDA c : c # ",")
           cleaned == Keep(noComma, {".", "-"})
       IN IF cleaned \in {<<>>, <<"-">>} THEN Null ELSE Number(cleaned)

\* /^\d/.test(c.trim())
StartsWithDigit(text) == text \in NumericTexts

\* parsePlayerCell: line 1 is the name, a following "TEAM | POS" line gives the team
parsePlayerCell(text) ==
  CASE text = "A\nBOS | PG" -> [playerName |-> "A", team |-> Some("BOS"), status |-> Null]
    [] OTHER -> [playerName |-> text, team |-> Null, status |-> Null]

RECURSIVE BuildRaw(_, _, _)
\* for (i < min(headers.length, cells.length)) if (headers[i]) raw[headers[i]] = cells[i]
BuildRaw(headers, cells, k) ==
  IF k > Len(headers) \/ k > Len(cells) THEN <<>>
  ELSE LET rest == BuildRaw(headers, cells, k + 1)
       IN IF headers[k] = "" THEN rest
          ELSE <<[h |-> headers[k], v |-> cells[k]]>>
                 \o SelectSeq(rest, LAMBDA e : e.h # headers[k])

\* mapped[field]: the cell of the last header classified as field ("" when none)
Mapped(headers, cells, field) ==
  LET ks == {k \in 1..Len(headers) : k <= Len(cells) /\ HeaderField(headers[k]) = field}
  IN IF ks = {} THEN ""
     ELSE cells[CHOOSE k \in ks : \A j \in ks : j <= k]

\* a fallback that lets a later name-like cell win
FirstNameLike_Last(cells) ==
  LET ks == {k \in 1..Len(cells) : cells[k] # "" /\ ~StartsWithDigit(cells[k])}
  IN IF ks = {} THEN ""
     ELSE cells[CHOOSE k \in ks : \A j \in ks : j <= k]

\* the first cell that is non-empty and does not start with a digit ("" when none)
FirstNameLike(cells) ==
  LET ks == {k \in 1..Len(cells) : cells[k] # "" /\ ~StartsWithDigit(cells[k])}
  IN IF ks = {} THEN ""
     ELSE cells[CHOOSE k \in ks : \A j \in ks : k <= j]

OrElse(text, fallback) == IF text # "" THEN Some(text) ELSE fallback

\* normalizeRow(headers, cells, context): Null when there is no cell or no player
normalizeRow(headers, cells, context) ==
  IF Len(cells) = 0 THEN Null
  ELSE
    LET raw == BuildRaw(headers, cells, 1)
        m == Mapped(headers, cells, "playerName")
        player == IF m # "" THEN m ELSE FirstNameLike(cells)
    IN IF player = "" THEN Null
       ELSE
         LET playerInfo == parsePlayerCell(player)
             base == [propKey |-> context.propKey,
                      propLabel |-> context.propLabel,
                      dateISO |-> context.dateISO,
                      playerName |-> playerInfo.playerName,
                      team |-> OrElse(Mapped(headers, cells, "team"), playerInfo.team),
                      status |-> OrElse(Mapped(headers, cells, "status"),
                                        playerInfo.status),
                      line |-> parseLine(TextChars(Mapped(headers, cells, "line"))),
                      oddsOver |-> parseOdds(TextChars(Mapped(headers, cells, "oddsOver"))),
                      oddsUnder |-> parseOdds(TextChars(Mapped(headers, cells, "oddsUnder"))),
                      projection |-> parseNumber(TextChars(Mapped(headers, cells, "projection"))),
                      diff |-> parseNumber(TextChars(Mapped(headers, cells, "diff"))),
                      dvp |-> OrElse(Mapped(headers, cells, "dvp"), Null),
                      hitRates |-> Null,
                      raw |-> raw]
         IN Some([f \in DOMAIN base \cup {"rowSignature"} |->
                    IF f = "rowSignature"
                      THEN makeRowSignature(context.propKey, base)
                      ELSE base[f]])

\* The table of the model: headers and the cell texts a row can show.
TableHeaders == <<"Player", "L", "Proj">>
CellRows ==
  {<<"A", "5", "7">>, <<"A", "5", "9">>,      \* one signature, two projections
   <<"A", "", "7">>, <<"A", "", "9">>,        \* no line: the signature takes the raw values
   <<"", "", "7">>,                           \* no player: not a row
   <<"A\nBOS | PG", "5", "7">>}               \* team in the player cell

\* A cell of the document: what td.textContent and what innerText give for it.
\* The two agree on a cell that holds one text node.
TextCell(t) == [textContent |-> t, innerText |-> t]
\* a player cell of two block elements, <div>A</div><div>BOS | PG</div>: innerText
\* separates the blocks by a line break, textContent concatenates them
PlayerBlocks == [textContent |-> "ABOS | PG", innerText |-> "A\nBOS | PG"]

\* the tbody rows a document can hold
DomRows ==
  {<<TextCell("A"), TextCell("5"), TextCell("7")>>,
   <<TextCell("A"), TextCell("5"), TextCell("9")>>,
   <<TextCell("B"), TextCell("5"), TextCell("7")>>,
   <<TextCell(""), TextCell(""), TextCell("7")>>,
   <<PlayerBlocks, TextCell("5"), TextCell("7")>>}

\* (td.textContent || '').trim() of every cell of a row
TextContents(row) == [k \in DOMAIN row |-> row[k].textContent]
\* (await cell.innerText()).trim() of every cell of a row
InnerTexts(row) == [k \in DOMAIN row |-> row[k].innerText]

\* the cell texts either reading gives for the rows of a document
DomTexts == {TextContents(r) : r \in DomRows} \cup {InnerTexts(r) : r \in DomRows}

\* What one read of the table's rows can return
Reads == UNION {[1..n -> CellRows] : n \in 0..MaxVisible}

\* the number of rows of the long grid
GridRows == 40

\* the cells of the n-th row of the long grid
GridRow(n) == <<"P" \o ToString(n), "5", "7">>

CollContext == [propKey |-> "pts", propLabel |-> "Pts", dateISO |-> DateISO]

\* normalizeRow on the rows of the model's table, tabulated once per (headers, cells)
\* (f @@ <<>> is f, as an explicit table)
Normalized ==
  [a \in {TableHeaders}
            \X (CellRows \cup DomTexts \cup {GridRow(n) : n \in 1..GridRows}) |->
     normalizeRow(a[1], a[2], CollContext)] @@ <<>>

\* normalizeRow(headers, cellTexts, context), read from the table
Normalize(headers, cells) == Normalized[<<headers, cells>>]

RECURSIVE MergeRows_NoDedup(_, _, _)
MergeRows_NoDedup(acc, headers, read) ==
  IF read = <<>> THEN acc
  ELSE
    LET row == Normalize(headers, Head(read))
    IN IF IsNull(row) THEN MergeRows_NoDedup(acc, headers, Tail(read))
       ELSE MergeRows_NoDedup([seen |-> acc.seen \cup {row[1].rowSignature},
                               out |-> Append(acc.out, row[1]),
                               added |-> acc.added + 1],
                              headers, Tail(read))

RECURSIVE MergeRows(_, _, _)
\* for (const cellTexts of rows) { const row = normalizeRow(...); if (!row) continue;
\*   if (!seen.has(row.rowSignature)) { seen.add(row.rowSignature); out.push(row) } }
\* acc = [seen, out, added]
MergeRows(acc, headers, read) ==
  IF read = <<>> THEN acc
  ELSE
    LET row == Normalize(headers, Head(read))
    IN IF IsNull(row) THEN MergeRows(acc, headers, Tail(read))
       ELSE IF row[1].rowSignature \in acc.seen
         THEN MergeRows(acc, headers, Tail(read))
       ELSE MergeRows([seen |-> acc.seen \cup {row[1].rowSignature},
                       out |-> Append(acc.out, row[1]),
                       added |-> acc.added + 1],
                      headers, Tail(read))

CollInit ==
  /\ cpc = "idle"
  /\ batchRows = [headers |-> <<>>, rows |-> <<>>]
  /\ seenSignatures = {}
  /\ collected = <<>>
  /\ stableCount = 0
  /\ totalAttempts = 0
  /\ returned = <<>>
  /\ sawDuplicate = FALSE
  /\ scrollTop = 0
  /\ tableKind = "short"

\* the rows of a read that normalizeRow accepts
Accepted(headers, read) ==
  {k \in DOMAIN read : ~IsNull(Normalize(headers, read[k]))}

\* collectAllRowsByScrolling is called; const batchRows = await page.evaluate(...)
FastRead ==
  /\ cpc = "idle"
  /\ \E hs \in {TableHeaders, <<>>}, rs \in Reads, kind \in {"short", "long"} :
       /\ kind = "long" => hs = <<>> /\ rs = <<>>   \* a grid without thead / tbody
       /\ batchRows' = [headers |-> hs, rows |-> rs]
       /\ tableKind' = kind
  /\ cpc' = "fast"
  /\ UNCHANGED <<seenSignatures, collected, stableCount, totalAttempts, returned,
                 sawDuplicate, scrollTop>>

\* if (batchRows.rows.length > 0) { ...; if (result.length > 0) return result }
\* otherwise the slow path starts with empty seenSignatures / allRows
FastPath ==
  /\ cpc = "fast"
  /\ LET effectiveHeaders == IF Len(batchRows.headers) > 0 THEN batchRows.headers
                             ELSE TableHeaders
         res == MergeRows([seen |-> {}, out |-> <<>>, added |-> 0],
                          effectiveHeaders, batchRows.rows)
     IN IF Len(batchRows.rows) > 0 /\ Len(res.out) > 0
          THEN /\ returned' = res.out
               /\ collected' = res.out
               /\ seenSignatures' = res.seen
               /\ cpc' = "returned"
               /\ sawDuplicate' =
                    (Cardinality(Accepted(effectiveHeaders, batchRows.rows)) > res.added)
               /\ UNCHANGED batchRows
          ELSE /\ seenSignatures' = {}
               /\ collected' = <<>>
               /\ cpc' = "slow"
               /\ batchRows' = [headers |-> <<>>, rows |-> <<>>]  \* not read again
               /\ UNCHANGED <<returned, sawDuplicate>>
  /\ stableCount' = 0
  /\ totalAttempts' = 0
  /\ UNCHANGED <<scrollTop, tableKind>>

\* if (newRowsThisPass === 0) stableCount++ else stableCount = 0, without the reset
NextStableCount_NoReset(stable, newRowsThisPass) ==
  IF newRowsThisPass = 0 THEN stable + 1 ELSE stable

\* if (newRowsThisPass === 0) { stableCount++ } else { stableCount = 0 }
NextStableCount(stable, newRowsThisPass) ==
  IF newRowsThisPass = 0 THEN stable + 1 ELSE 0

\* el.scrollTop += el.clientHeight * 0.8, or page.mouse.wheel(0, 600): one step
\* down, as far as the content goes
ScrollDown(top) == IF top < ScrollHeight THEN top + 1 ELSE top

\* const visibleRowTexts = await readVisibleRowTexts(page): any rows of the short
\* table; of the long grid nothing new or its next row
VisibleReads ==
  IF tableKind = "long"
    THEN {<<>>} \cup {<<GridRow(n)>> : n \in {Len(collected) + 1} \cap 1..GridRows}
    ELSE Reads

\* one iteration of the while loop: read the visible rows, merge, count, scroll
SlowIteration ==
  /\ cpc = "slow"
  /\ totalAttempts < MAX_SCROLL_ATTEMPTS /\ stableCount < STABLE_SCROLL_THRESHOLD
  /\ \E visibleRowTexts \in VisibleReads :
       LET res == MergeRows([seen |-> seenSignatures, out |-> collected, added |-> 0],
                            TableHeaders, visibleRowTexts)
       IN /\ seenSignatures' = res.seen
          /\ collected' = res.out
          /\ stableCount' = NextStableCount(stableCount, res.added)
          /\ sawDuplicate' =
               (sawDuplicate
                  \/ Cardinality(Accepted(TableHeaders, visibleRowTexts)) > res.added)
  /\ scrollTop' = ScrollDown(scrollTop)
  /\ totalAttempts' = totalAttempts + 1
  /\ UNCHANGED <<cpc, batchRows, returned, tableKind>>

\* an await of the slow path rejects (the scroll container is gone, the page was
\* closed, a timeout): inside the loop the scroll step or the wait after it, after
\* the loop the scroll back to the top. Nothing catches it in the function, the
\* call ends with the locals dropped.
SlowThrow ==
  /\ cpc = "slow"
  /\ IF totalAttempts < MAX_SCROLL_ATTEMPTS /\ stableCount < STABLE_SCROLL_THRESHOLD
       THEN scrollTop' \in {scrollTop, ScrollDown(scrollTop)}
       ELSE scrollTop' = scrollTop
  /\ cpc' = "thrown"
  /\ seenSignatures' = {}
  /\ collected' = <<>>
  /\ UNCHANGED <<batchRows, stableCount, totalAttempts, returned, sawDuplicate,
                 tableKind>>

\* the loop ends: scroll back to top; return allRows
SlowReturn ==
  /\ cpc = "slow"
  /\ ~(totalAttempts < MAX_SCROLL_ATTEMPTS /\ stableCount < STABLE_SCROLL_THRESHOLD)
  /\ scrollTop' = 0
  /\ returned' = collected
  /\ cpc' = "returned"
  /\ UNCHANGED <<batchRows, seenSignatures, collected, stableCount, totalAttempts,
                 sawDuplicate, tableKind>>

(***************************************************************************)
(* makeRowSignature applied to two rows of one category                    *)
(***************************************************************************)

\* The rows handed to makeRowSignature: each of the five identity fields present or
\* absent, odds that can equal a line, and raw maps that differ.
SigRaws == {<<>>,
            <<[h |-> "Player", v |-> "A"], [h |-> "Proj", v |-> "7"]>>,
            <<[h |-> "Player", v |-> "A"], [h |-> "Proj", v |-> "9"]>>}

SigInputs ==
  [playerName : {"", "A"},
   team : {Null, Some("BOS")},
   line : {Null, Some(5)},
   oddsOver : {Null, Some(5), Some(-110)},
   oddsUnder : {Null, Some(-110)},
   raw : SigRaws]

SigInit ==
  /\ sigpc = "idle"
  /\ sigRows = <<>>
  /\ sigOut = <<>>

\* two rows of the category are at hand
SigTakeRows ==
  /\ sigpc = "idle"
  /\ \E r1 \in SigInputs, r2 \in SigInputs : sigRows' = <<r1, r2>>
  /\ sigOut' = <<>>
  /\ sigpc' = "rows"

\* row.rowSignature = makeRowSignature(context.propKey, row), for both rows
SigSign ==
  /\ sigpc = "rows"
  /\ sigOut' = <<makeRowSignature("pts", sigRows[1]), makeRowSignature("pts", sigRows[2])>>
  /\ sigpc' = "signed"
  /\ UNCHANGED sigRows

(***************************************************************************)
(* Refresh detector: waitForTableRefresh, getFirstRowSignature             *)
(***************************************************************************)

\* timeoutMs of a call, in ticks of 300 ms (the poll interval).
RefreshTimeoutTicks == 3

\* Math.min(5000, ...): 5000 ms in ticks of 300 ms
HiddenWaitTicks == 17

\* What getFirstRowSignature can return: '' for no rows or a failed read
FirstRowSigs == {"", "s1", "s2"}

RefreshInit ==
  /\ rpc = "idle"
  /\ now = 0
  /\ deadline = 0
  /\ prevArg = ""
  /\ lastSig = ""
  /\ refreshed = Null
  /\ reads = 0
  /\ changeSeen = FALSE

\* const sig = await getFirstRowSignature(page): the read takes under one tick or one
\* tick; it never throws (its body is one try / catch returning '')
ReadSig(next) ==
  \E sig \in FirstRowSigs, d \in {0, 1} :
    /\ lastSig' = sig
    /\ now' = now + d
    /\ reads' = reads + 1
    /\ changeSeen' = (changeSeen \/ sig # prevArg)
    /\ IF sig # "" /\ sig # prevArg
         THEN rpc' = "returned" /\ refreshed' = Some(sig)   \* return sig
         ELSE rpc' = next /\ UNCHANGED refreshed

\* waitForTableRefresh(page, previousSignature, timeoutMs) is called
RefreshCall ==
  /\ rpc = "idle"
  /\ \E p \in FirstRowSigs : prevArg' = p
  /\ now' = 0
  /\ deadline' = RefreshTimeoutTicks
  /\ rpc' = "loop"
  /\ UNCHANGED <<lastSig, refreshed, reads, changeSeen>>

\* while (Date.now() < deadline) {
RefreshLoopHead ==
  /\ rpc = "loop"
  /\ rpc' = IF now < deadline THEN "read1" ELSE "networkidle"
  /\ UNCHANGED <<now, deadline, prevArg, lastSig, refreshed, reads, changeSeen>>

\* const sig = await getFirstRowSignature(page); if (sig && sig !== previousSignature) return sig
RefreshRead1 ==
  /\ rpc = "read1"
  /\ ReadSig("loading")
  /\ UNCHANGED <<deadline, prevArg>>

\* const loadingCount = await loading.count().catch(() => 0); if (loadingCount > 0) {
RefreshLoadingCount ==
  /\ rpc = "loading"
  /\ \E shown \in BOOLEAN, d \in {0, 1} :
       /\ now' = now + d
       /\ rpc' = IF shown THEN "waitHidden" ELSE "sleep"
  /\ UNCHANGED <<deadline, prevArg, lastSig, refreshed, reads, changeSeen>>

\* try { await loading.first().waitFor({ state: 'hidden',
\*         timeout: Math.min(5000, deadline - Date.now()) }) } catch { }
\* A timeout of 0 disables the timeout: the wait then ends only when the indicator
\* hides.  A positive timeout ends the wait at the latest when it elapses, a
\* negative one at once.
RefreshWaitHidden ==
  /\ rpc = "waitHidden"
  /\ LET rest == deadline - now
         timeout == IF HiddenWaitTicks < rest THEN HiddenWaitTicks ELSE rest
     IN \E hides \in BOOLEAN :
          IF timeout = 0
            THEN IF hides
                   THEN \E d \in {0, 1} : now' = now + d /\ rpc' = "read2"
                   ELSE now' = now /\ rpc' = "hung"
          ELSE IF timeout > 0
            THEN \E d \in 0..timeout :
                   /\ (~hides => d = timeout)
                   /\ now' = now + d
                   /\ rpc' = "read2"
          ELSE now' = now /\ rpc' = "read2"
  /\ UNCHANGED <<deadline, prevArg, lastSig, refreshed, reads, changeSeen>>

\* const newSig = await getFirstRowSignature(page); if (newSig && ...) return newSig }
RefreshRead2 ==
  /\ rpc = "read2"
  /\ ReadSig("sleep")
  /\ UNCHANGED <<deadline, prevArg>>

\* await page.waitForTimeout(300) }
RefreshSleep ==
  /\ rpc = "sleep"
  /\ now' = now + 1
  /\ rpc' = "loop"
  /\ UNCHANGED <<deadline, prevArg, lastSig, refreshed, reads, changeSeen>>

\* try { await page.waitForLoadState('networkidle', { timeout: 3000 }) } catch { }
\* const finalSig = await getFirstRowSignature(page); if (finalSig && ...) return finalSig
RefreshFinalRead ==
  /\ rpc = "networkidle"
  /\ ReadSig("lastDelay")
  /\ UNCHANGED <<deadline, prevArg>>

\* await page.waitForTimeout(1500); const lastSig = await getFirstRowSignature(page);
\* return lastSig || previousSignature
RefreshLastRead ==
  /\ rpc = "lastDelay"
  /\ \E sig \in FirstRowSigs :
       /\ lastSig' = sig
       /\ reads' = reads + 1
       /\ changeSeen' = (changeSeen \/ sig # prevArg)
       /\ refreshed' = Some(RefreshResult(prevArg, sig))
  /\ rpc' = "returned"
  /\ UNCHANGED <<now, deadline, prevArg>>

(***************************************************************************)
(* The run result: main after scrapeNbaPropsForDate, the CLI wrapper       *)
(***************************************************************************)

\* The sessions scrapeNbaPropsForDate can hand to main, as far as main looks at
\* them: the per-category errors and the number of results.
MainSessions ==
  [errors : {<<>>, <<"pts">>, <<"pts", "reb">>}, results : {0, 1, 2}]

MainInit ==
  /\ mpc = "idle"
  /\ mSession = Null
  /\ dbResult = Null
  /\ result = Null
  /\ runLog = Null
  /\ exitCode = 0

\* const session = await scrapeNbaPropsForDate(page, opts.date, scrapeOpts)
MainScraped ==
  /\ mpc = "idle"
  /\ \E s \in MainSessions : mSession' = Some(s)
  /\ mpc' = "persist"
  /\ UNCHANGED <<dbResult, result, runLog, exitCode>>

\* if (opts.noDb || opts.discover) skipped; else if (!isDbConfigured()) skipped;
\* else try { persist = await persistScrapeSession(session); status 'success' }
\*      catch { status 'error' }
MainPersist ==
  /\ mpc = "persist"
  /\ \E skip \in BOOLEAN, persisted \in BOOLEAN :
       dbResult' = IF skip THEN Some([status |-> "skipped"])
                   ELSE IF persisted THEN Some([status |-> "success"])
                   ELSE Some([status |-> "error"])
  /\ mpc' = "result"
  /\ UNCHANGED <<mSession, result, runLog, exitCode>>

\* const result = { success: session.errors.length === 0, session, db: dbResult };
\* fs.mkdirSync(logDir); fs.writeFileSync(logPath, JSON.stringify(result)); return result
\* } catch (err) { return { success: false, error: message } }
MainResult ==
  /\ mpc = "result"
  /\ LET r == [success |-> Len(mSession[1].errors) = 0,
               session |-> mSession, db |-> dbResult, error |-> Null]
     IN \E written \in BOOLEAN :
          IF written
            THEN /\ runLog' = Some(r)
                 /\ result' = Some(r)
            ELSE /\ runLog' = Null
                 /\ result' = Some([success |-> FALSE, session |-> Null, db |-> Null,
                                    error |-> Some("write failed")])
  /\ mpc' = "finally"
  /\ UNCHANGED <<mSession, dbResult, exitCode>>

\* finally { if (browser) await browser.close(); await closePool().catch(() => {});
\*           releaseLock(); }
\* A rejection of browser.close() replaces the returned result: main() rejects.
MainFinally ==
  /\ mpc = "finally"
  /\ \E closed \in BOOLEAN :
       IF closed
         THEN mpc' = "resolved" /\ UNCHANGED result
         ELSE mpc' = "rejected" /\ result' = Null
  /\ UNCHANGED <<mSession, dbResult, runLog, exitCode>>

\* main().then((result) => { if (!result.success) process.exitCode = 1 })
\* There is no catch: a rejection of main() ends the process as an unhandled
\* rejection, with exit code 1.
MainExit ==
  /\ mpc \in {"resolved", "rejected"}
  /\ exitCode' = IF mpc = "resolved" /\ result[1].success THEN 0 ELSE 1
  /\ mpc' = "exited"
  /\ UNCHANGED <<mSession, dbResult, result, runLog>>

(***************************************************************************)
(* Option discovery: discoverPropOptions                                   *)
(***************************************************************************)

\* Controls one strategy looks at before the page has no more of them.
MaxControls == 2

\* /pts|ast|reb|stl|blk|3pm|points|assists|rebounds/i.test(t): an unanchored,
\* case-insensitive search ("Last 5" contains "ast")
LooksLikeProp(t) == t \in {"Pts", "PTS", "Reb", "Ast", "Last 5"}

\* /^(select|choose|all|--)/i.test(t)
IsPlaceholder(t) == t \in {"All", "Select"}

\* normalizePropKey on the texts of the model
normalizePropKey(t) ==
  CASE t \in {"Pts", "PTS"} -> "pts"
    [] t = "Reb" -> "reb"
    [] t = "Ast" -> "ast"
    [] t = "Last 5" -> "last_5"
    [] t = "Home" -> "home"
    [] t = "Away" -> "away"
    [] OTHER -> t

\* The item lists a <select> or an opened popup can show.
ItemLists ==
  {<<"Pts", "Reb", "Ast">>,          \* the categories
   <<"All", "Pts", "PTS", "Reb">>,   \* a placeholder, two labels with one key
   <<"Home", "Away", "Pts">>,        \* three items, one of them prop-like
   <<"Home", "Away", "Last 5">>,     \* another control: "Last 5" contains "ast"
   <<"Pts", "Reb">>,                 \* fewer than three items
   <<"Home", "Away", "All">>}        \* nothing prop-like

\* What trying one control can lead to: the click fails, the list is read, or the
\* popup opens and reading it throws.
Outcomes == {<<"clickFails">>, <<"readError">>} \cup {<<"list", l>> : l \in ItemLists}

\* texts.some(t => /pts|.../i.test(t))
looksLikeProps(texts) == \E j \in DOMAIN texts : LooksLikeProp(texts[j])

\* texts.filter(t => t && !/^(select|choose|all|--)/i.test(t))
\*      .map(t => ({ label: t, key: normalizePropKey(t) }))
ToOptions(texts) ==
  LET kept == SelectSeq(texts, LAMBDA t : t # "" /\ ~IsPlaceholder(t))
  IN [j \in DOMAIN kept |-> [label |-> kept[j], key |-> normalizePropKey(kept[j])]]

\* if (count >= 3) { ...; if (looksLikeProps) options = ... }: the options one list
\* gives, <<>> when it is not taken
Yield(texts) ==
  IF Len(texts) >= 3 /\ looksLikeProps(texts) THEN ToOptions(texts) ELSE <<>>

\* options.filter(o => { if (seen.has(o.key)) return false; seen.add(o.key); return true })
Deduplicate(opts) ==
  SelectSeq([j \in DOMAIN opts |-> [o |-> opts[j], j |-> j]],
            LAMBDA x : \A j2 \in 1..(x.j - 1) : opts[j2].key # x.o.key)

StrategyOrder == <<"A", "B", "C", "D", "E", "close">>

\* the strategy after this one
NextStrategy(st) ==
  StrategyOrder[(CHOOSE j \in DOMAIN StrategyOrder : StrategyOrder[j] = st) + 1]

DiscInit ==
  /\ dpc = "A"
  /\ tried = 0
  /\ options = <<>>
  /\ strategy = "none"
  /\ popupOpen = 0
  /\ activations = <<>>
  /\ overlap = FALSE
  /\ lateActivation = FALSE

\* this strategy is over: its guard options.length === 0 fails, or the page has no
\* (more) controls for it
StrategyDone(st) ==
  /\ dpc = st
  /\ dpc' = NextStrategy(st)
  /\ tried' = 0
  /\ UNCHANGED <<options, strategy, popupOpen, activations, overlap, lateActivation>>

\* a control of strategy st is clicked and its popup opens
Activate(st) ==
  /\ activations' = Append(activations, st)
  /\ overlap' = (overlap \/ popupOpen > 0)
  /\ lateActivation' = (lateActivation \/ options # <<>>)

\* Strategy A: a <select> with options; nothing is clicked.  The reads are not
\* inside a try: a failing innerText() leaves discoverPropOptions with the error.
StrategyA ==
  /\ dpc = "A"
  /\ tried < MaxControls
  /\ \E o \in Outcomes \ {<<"clickFails">>} :
       IF o[1] = "readError"
         THEN /\ dpc' = "thrown"
              /\ UNCHANGED <<options, strategy, tried>>
       ELSE IF Len(o[2]) >= 3 /\ looksLikeProps(o[2])
         THEN /\ strategy' = "native-select"
              /\ options' = ToOptions(o[2])
              /\ dpc' = "B"                       \* break
              /\ tried' = 0
         ELSE /\ tried' = tried + 1
              /\ UNCHANGED <<dpc, options, strategy>>
  /\ UNCHANGED <<popupOpen, activations, overlap, lateActivation>>

\* Strategies B (combobox role) and C (aria-haspopup button): click, read the list,
\* press Escape; a failing click or read goes to the catch, which does nothing.
StrategyBC(st, name) ==
  /\ dpc = st
  /\ options = <<>>
  /\ tried < MaxControls
  /\ tried' = tried + 1
  /\ \E o \in Outcomes :
       IF o[1] = "clickFails"
         THEN UNCHANGED <<options, strategy, popupOpen, activations, overlap, lateActivation>>
       ELSE IF o[1] = "readError"
         THEN /\ Activate(st)
              /\ popupOpen' = popupOpen + 1       \* no Escape on this path
              /\ UNCHANGED <<options, strategy>>
         ELSE /\ Activate(st)
              /\ options' = Yield(o[2])
              /\ strategy' = IF Len(o[2]) >= 3 /\ looksLikeProps(o[2])
                               THEN name ELSE strategy
              /\ popupOpen' = popupOpen           \* opened, then Escape
  /\ UNCHANGED dpc

StrategyB == StrategyBC("B", "combobox-role")

StrategyC == StrategyBC("C", "aria-haspopup")

\* Strategy D (label scan): like B, but a list that is taken leaves the loop before
\* the Escape.
StrategyD ==
  /\ dpc = "D"
  /\ options = <<>>
  /\ tried < MaxControls
  /\ tried' = tried + 1
  /\ \E o \in Outcomes :
       IF o[1] = "clickFails"
         THEN UNCHANGED <<options, strategy, popupOpen, activations, overlap, lateActivation>>
       ELSE IF o[1] = "readError"
         THEN /\ Activate("D")
              /\ popupOpen' = popupOpen + 1
              /\ UNCHANGED <<options, strategy>>
         ELSE /\ Activate("D")
              /\ options' = Yield(o[2])
              /\ strategy' = IF Len(o[2]) >= 3 /\ looksLikeProps(o[2])
                               THEN "props-label-scan" ELSE strategy
              /\ popupOpen' = IF Yield(o[2]) # <<>> THEN popupOpen + 1 ELSE popupOpen
  /\ UNCHANGED dpc

\* Strategy E (broad scan): one try / catch around the whole loop, so a failing
\* click or read ends the strategy.
StrategyE ==
  /\ dpc = "E"
  /\ options = <<>>
  /\ tried < MaxControls
  /\ \E o \in Outcomes :
       IF o[1] = "clickFails"
         THEN /\ dpc' = "close"
              /\ tried' = 0
              /\ UNCHANGED <<options, strategy, popupOpen, activations, overlap, lateActivation>>
       ELSE IF o[1] = "readError"
         THEN /\ Activate("E")
              /\ popupOpen' = popupOpen + 1
              /\ dpc' = "close"
              /\ tried' = 0
              /\ UNCHANGED <<options, strategy>>
         ELSE /\ Activate("E")
              /\ options' = Yield(o[2])
              /\ strategy' = IF Len(o[2]) >= 3 /\ looksLikeProps(o[2])
                               THEN "broad-scan" ELSE strategy
              /\ popupOpen' = IF Yield(o[2]) # <<>> THEN popupOpen + 1 ELSE popupOpen
              /\ tried' = tried + 1
              /\ UNCHANGED dpc

\* the guard of a strategy fails or its controls are used up: on to the next one
SkipStrategy ==
  \E st \in {"A", "B", "C", "D", "E"} : StrategyDone(st)

\* try { await page.keyboard.press('Escape') } catch { }; deduplicate; diagnostics;
\* saveDebugArtifacts (when opts.debug) is awaited without a catch; return
CloseAndReturn ==
  /\ dpc = "close"
  /\ popupOpen' = IF popupOpen > 0 THEN popupOpen - 1 ELSE 0
  /\ options' = [j \in DOMAIN Deduplicate(options) |-> Deduplicate(options)[j].o]
  /\ \E debugFails \in BOOLEAN : dpc' = IF debugFails THEN "thrown" ELSE "returned"
  /\ UNCHANGED <<tried, strategy, activations, overlap, lateActivation>>

(***************************************************************************)
(* Calls of the pure functions                                             *)
(***************************************************************************)

\* before a call: no arguments, no result
FnInit == fpc = "idle" /\ fIn = Null /\ fOut = Null

\* ---- normalizeRow on grids without a player header (part_000:1265-1344) ----

MaxHeaders == 2
MaxCells == 3

\* header texts none of which HEADER_MAP classifies as playerName
NoPlayerHeaders == {"", "L", "Team", "Status"}
\* trimmed cell texts: empty, numeric, and four that do not start with a digit
GridCells == {"", "5", "A", "B", "A\nBOS | PG", "-110"}

Grids ==
  {[headers |-> h, cells |-> c] :
     h \in UNION {[1..n -> NoPlayerHeaders] : n \in 0..MaxHeaders},
     c \in UNION {[1..n -> GridCells] : n \in 0..MaxCells}}

\* the caller passes a header/cell grid
NormTake ==
  /\ fpc = "idle"
  /\ \E g \in Grids : fIn' = g
  /\ fpc' = "grid"
  /\ fOut' = Null

\* normalizeRow(headers, cells, context) returns
NormApply ==
  /\ fpc = "grid"
  /\ fOut' = normalizeRow(fIn.headers, fIn.cells, CollContext)
  /\ fpc' = "normalized"
  /\ fIn' = fIn

\* ---- parseOdds, parseLine, parseNumber (part_000:1646-1675) ----

MaxTextLen == 3

\* the characters of a numeric cell: signs, the Unicode minus, a digit, the dot,
\* an over/under marker, a blank, the percent sign and the thousands separator
NumChars == {"-", "+", "u2212", "5", ".", "O", " ", "%", ","}
NumTexts == UNION {[1..n -> NumChars] : n \in 0..MaxTextLen}

\* the three parsers applied to one text
ParseAll(text) ==
  [odds |-> parseOdds(text), line |-> parseLine(text), number |-> parseNumber(text)]

\* the caller passes a cell text; ascii is the same text typed with ASCII minus
NumTake ==
  /\ fpc = "idle"
  /\ \E t \in NumTexts : fIn' = [text |-> t, ascii |-> ReplaceUnicodeMinus(t)]
  /\ fpc' = "text"
  /\ fOut' = Null

\* each parser returns, for the text and for its ASCII spelling
NumApply ==
  /\ fpc = "text"
  /\ fOut' = [text |-> ParseAll(fIn.text), ascii |-> ParseAll(fIn.ascii)]
  /\ fpc' = "parsed"
  /\ fIn' = fIn

\* ---- the two paths of collectAllRowsByScrolling on one document
\* ---- (part_000:1040-1127) ----

MaxDocRows == 3

\* documents whose tbody holds all rows of the table
Documents == UNION {[1..n -> DomRows] : n \in 0..MaxDocRows}

\* the fast path: one page.evaluate reads textContent of every tbody row (a row
\* has cells here, so none is dropped), rows are normalised and deduplicated
FastRows(doc) ==
  LET read == [k \in DOMAIN doc |-> TextContents(doc[k])]
  IN MergeRows([seen |-> {}, out |-> <<>>, added |-> 0], TableHeaders, read).out

RECURSIVE SlowRun(_, _, _, _)
\* the while loop of the slow path when every iteration reads all rows of the
\* document through innerText
SlowRun(doc, acc, stable, attempts) ==
  IF ~(attempts < MAX_SCROLL_ATTEMPTS /\ stable < STABLE_SCROLL_THRESHOLD) THEN acc.out
  ELSE LET read == [k \in DOMAIN doc |-> InnerTexts(doc[k])]
           res == MergeRows([seen |-> acc.seen, out |-> acc.out, added |-> 0],
                            TableHeaders, read)
       IN SlowRun(doc, res, IF res.added = 0 THEN stable + 1 ELSE 0, attempts + 1)

SlowRows(doc) == SlowRun(doc, [seen |-> {}, out |-> <<>>, added |-> 0], 0, 0)

\* a page shows a document
PathsTake ==
  /\ fpc = "idle"
  /\ \E doc \in Documents : fIn' = doc
  /\ fpc' = "document"
  /\ fOut' = Null

\* both paths collect the rows of the document
PathsApply ==
  /\ fpc = "document"
  /\ fOut' = [fast |-> FastRows(fIn), slow |-> SlowRows(fIn)]
  /\ fpc' = "collected"
  /\ fIn' = fIn

\* ---- clickOptionInList on an opened list (part_000:831-867) ----

MaxItems == 3

\* the category labels of the lists and, for each, the labels it contains as a
\* substring
ItemTexts == {"Pts", "Reb", "Pts+Reb"}
Includes(txt, label) ==
  \/ txt = label
  \/ txt = "Pts+Reb" /\ label \in {"Pts", "Reb"}

\* the elements of an opened list: role="option", role="menuitem", or a plain li
ItemKinds == {"option", "menuitem", "li"}
ListItems == [kind : ItemKinds, text : ItemTexts]
OpenLists == UNION {[1..n -> ListItems] : n \in 0..MaxItems}

\* locator.first(): the first of the matching positions (0 when none)
First(ks) == IF ks = {} THEN 0 ELSE CHOOSE k \in ks : \A j \in ks : k <= j

\* the items of one kind whose text is the label (exact) or contains it
Matching(list, kind, label, exact) ==
  {k \in DOMAIN list :
     /\ list[k].kind = kind
     /\ IF exact THEN list[k].text = label ELSE Includes(list[k].text, label)}

\* the first non-zero entry of a sequence of positions (0 when none)
FirstFound(found) ==
  LET ks == {k \in DOMAIN found : found[k] # 0}
  IN IF ks = {} THEN 0 ELSE found[CHOOSE k \in ks : \A j \in ks : k <= j]

\* clickOptionInList(page, label): the position of the item it clicks, 0 when it
\* returns false. getByRole with exact matches the whole name, without exact a
\* substring; the generic scan goes through the three selectors in turn.
clickOptionInList(list, label) ==
  LET roleOption == First(Matching(list, "option", label, TRUE))
      roleOptionLoose == First(Matching(list, "option", label, FALSE))
      menuItem == First(Matching(list, "menuitem", label, FALSE))
      generic == [sel \in ItemKinds |-> First(Matching(list, sel, label, FALSE))]
  IN FirstFound(<<roleOption, roleOptionLoose, menuItem,
                  generic["option"], generic["menuitem"], generic["li"]>>)

\* a trigger was clicked and a list is open; a label is requested
ClickTake ==
  /\ fpc = "idle"
  /\ \E list \in OpenLists, label \in {"Reb", "Pts+Reb"} :
       fIn' = [list |-> list, label |-> label]
  /\ fpc' = "open"
  /\ fOut' = Null

\* clickOptionInList returns
ClickApply ==
  /\ fpc = "open"
  /\ fOut' = Some(clickOptionInList(fIn.list, fIn.label))
  /\ fpc' = "clicked"
  /\ fIn' = fIn

(***************************************************************************)
(* ProcessManager (electron/processManager.ts)                             *)
(***************************************************************************)

MaxChildren == 2

\* the types the IPC handlers pass to spawn
ProcessTypes == {"run", "scrape"}

NoOp == [op |-> "none", child |-> 0, activeBefore |-> 0, threw |-> FALSE]

\* new ProcessManager(projectRoot); onDone registered at module load
PmInit ==
  /\ activeChild = 0
  /\ activeType = Null
  /\ children = <<>>
  /\ doneCalls = <<>>
  /\ pmLog = NoOp

isRunning == activeChild # 0

\* spawn(type, scriptArgs, onOutput): throws while a child is active, otherwise
\* starts a child, records it as active and attaches the listeners
spawn(type) ==
  /\ Len(children) < MaxChildren
  /\ IF activeChild # 0
       THEN /\ pmLog' = [op |-> "spawn", child |-> 0, activeBefore |-> activeChild,
                         threw |-> TRUE]
            /\ UNCHANGED <<activeChild, activeType, children, doneCalls>>
       ELSE /\ children' = Append(children, [type |-> type, alive |-> TRUE,
                                             closed |-> FALSE, errored |-> FALSE])
            /\ activeChild' = Len(children) + 1
            /\ activeType' = Some(type)
            /\ pmLog' = [op |-> "spawn", child |-> Len(children) + 1,
                         activeBefore |-> 0, threw |-> FALSE]
            /\ UNCHANGED doneCalls

\* the listeners of child c: finishedType = this.activeType!; this.activeChild =
\* null; this.activeType = null; this.doneCallback?.(finishedType, code)
Listener(c, event, code) ==
  /\ doneCalls' = Append(doneCalls, [child |-> c, type |-> activeType, code |-> code])
  /\ activeChild' = 0
  /\ activeType' = Null
  /\ pmLog' = [op |-> event, child |-> c, activeBefore |-> activeChild, threw |-> FALSE]

\* child c exits and its stdio closes: child.on('close', (code) => ...)
ChildClose(c) ==
  /\ c \in DOMAIN children
  /\ ~children[c].closed
  /\ children' = [children EXCEPT ![c].alive = FALSE, ![c].closed = TRUE]
  /\ \E code \in {0, 1} : Listener(c, "close", Some(code))

\* child c could not be spawned or could not be killed: child.on('error', ...).
\* The process has not exited by this event; its close event may still follow.
ChildError(c) ==
  /\ c \in DOMAIN children
  /\ ~children[c].closed /\ ~children[c].errored
  /\ children' = [children EXCEPT ![c].errored = TRUE]
  /\ Listener(c, "error", Null)

\* killActive(): if (this.activeChild) { this.activeChild.kill(); this.activeChild
\* = null; this.activeType = null }. kill() sends SIGTERM; the child exits later.
killActive ==
  /\ activeChild # 0
  /\ activeChild' = 0
  /\ activeType' = Null
  /\ pmLog' = [op |-> "kill", child |-> activeChild, activeBefore |-> activeChild,
               threw |-> FALSE]
  /\ UNCHANGED <<children, doneCalls>>

(***************************************************************************)
(* Specifications                                                          *)
(***************************************************************************)

InitScrape == ScrapeInit /\ LockInit /\ DbInit /\ CollInit /\ SigInit /\ RefreshInit /\ MainInit /\ DiscInit /\ FnInit /\ PmInit

\* the other components' variables, while no run of the scrape loop is modelled
ScrapeIdle ==
  /\ toScrape = <<>> /\ i = 1 /\ attempt = 1 /\ pc = "idle" /\ success = FALSE
  /\ rows = <<>> /\ results = <<>> /\ errors = <<>> /\ totalRows = 0
  /\ session = NoSession /\ events = <<>>
  /\ previousSignature = "" /\ tableSig = "" /\ refreshArg = Null
  /\ sigBefore = Null /\ allPropsFile = Null /\ noOptions = FALSE
  /\ selection = Null

InitOther == ScrapeIdle /\ LockInit /\ DbInit /\ CollInit /\ SigInit /\ RefreshInit /\ MainInit /\ DiscInit /\ FnInit /\ PmInit

ScrapeOnly == UNCHANGED <<lockVars, dbVars, collVars, sigVars, refreshVars, mainVars,
    discVars, fnVars, pmVars>>
LockOnly == UNCHANGED <<scrapeVars, dbVars, collVars, sigVars, refreshVars, mainVars,
    discVars, fnVars, pmVars>>
DbOnly == UNCHANGED <<scrapeVars, lockVars, collVars, sigVars, refreshVars, mainVars,
    discVars, fnVars, pmVars>>
CollOnly == UNCHANGED <<scrapeVars, lockVars, dbVars, sigVars, refreshVars, mainVars,
    discVars, fnVars, pmVars>>
SigOnly == UNCHANGED <<scrapeVars, lockVars, dbVars, collVars, refreshVars, mainVars,
    discVars, fnVars, pmVars>>
RefreshOnly == UNCHANGED <<scrapeVars, lockVars, dbVars, collVars, sigVars, mainVars,
    discVars, fnVars, pmVars>>
MainOnly == UNCHANGED <<scrapeVars, lockVars, dbVars, collVars, sigVars, refreshVars,
    discVars, fnVars, pmVars>>

DiscOnly == UNCHANGED <<scrapeVars, lockVars, dbVars, collVars, sigVars, refreshVars,
    mainVars, fnVars, pmVars>>
FnOnly == UNCHANGED <<scrapeVars, lockVars, dbVars, collVars, sigVars, refreshVars,
    mainVars, discVars, pmVars>>
PmOnly == UNCHANGED <<scrapeVars, lockVars, dbVars, collVars, sigVars, refreshVars,
    mainVars, discVars, fnVars>>

Next ==
  \/ Discover /\ ScrapeOnly
  \/ ForHead /\ ScrapeOnly
  \/ AttemptHead /\ ScrapeOnly
  \/ SelectProp /\ ScrapeOnly
  \/ ReadHeaders /\ ScrapeOnly
  \/ CollectRows /\ ScrapeOnly
  \/ WriteAndPush /\ ScrapeOnly
  \/ CatchAttempt /\ ScrapeOnly
  \/ Pause /\ ScrapeOnly
  \/ NextAttempt /\ ScrapeOnly
  \/ AfterAttempts /\ ScrapeOnly
  \/ Finalize /\ ScrapeOnly

\* the scrape loop over one list of categories
Spec == InitScrape /\ [][Next]_vars

NextLock ==
  \/ \E p \in Procs : StartMain(p) /\ LockOnly
  \/ \E p \in Procs : TryLock(p) /\ LockOnly
  \/ \E p \in Procs : Launch(p) /\ LockOnly
  \/ \E p \in Procs : Verify(p) /\ LockOnly
  \/ \E p \in Procs : ScrapeAndPersist(p) /\ LockOnly
  \/ \E p \in Procs : FinallyClose(p) /\ LockOnly
  \/ \E p \in Procs : FinallyClosePool(p) /\ LockOnly
  \/ \E p \in Procs : FinallyRelease(p) /\ LockOnly
  \/ \E p \in Procs : KillActive(p) /\ LockOnly

\* concurrent scraper processes around the lock file
SpecLock == InitOther /\ [][NextLock]_vars

NextDb ==
  \/ \E s \in Sessions : PersistStart(s) /\ DbOnly
  \/ UpsertChunk /\ DbOnly
  \/ PersistReturn /\ DbOnly

\* a sequence of persistScrapeSession calls against one store
SpecDb == InitOther /\ [][NextDb]_vars

NextColl ==
  \/ FastRead /\ CollOnly
  \/ FastPath /\ CollOnly
  \/ SlowIteration /\ CollOnly
  \/ SlowReturn /\ CollOnly
  \/ SlowThrow /\ CollOnly

\* one call of collectAllRowsByScrolling
SpecColl == InitOther /\ [][NextColl]_vars

\* the same call when every await settles
SpecCollFair == SpecColl /\ WF_vars(NextColl)

NextSig ==
  \/ SigTakeRows /\ SigOnly
  \/ SigSign /\ SigOnly

\* makeRowSignature on pairs of rows of one category
SpecSig == InitOther /\ [][NextSig]_vars

NextRefresh ==
  \/ RefreshCall /\ RefreshOnly
  \/ RefreshLoopHead /\ RefreshOnly
  \/ RefreshRead1 /\ RefreshOnly
  \/ RefreshLoadingCount /\ RefreshOnly
  \/ RefreshWaitHidden /\ RefreshOnly
  \/ RefreshRead2 /\ RefreshOnly
  \/ RefreshSleep /\ RefreshOnly
  \/ RefreshFinalRead /\ RefreshOnly
  \/ RefreshLastRead /\ RefreshOnly

\* one call of waitForTableRefresh
SpecRefresh == InitOther /\ [][NextRefresh]_vars

NextMain ==
  \/ MainScraped /\ MainOnly
  \/ MainPersist /\ MainOnly
  \/ MainResult /\ MainOnly
  \/ MainFinally /\ MainOnly
  \/ MainExit /\ MainOnly

\* one run of main from the return of scrapeNbaPropsForDate to the process exit
SpecMain == InitOther /\ [][NextMain]_vars

NextDisc ==
  \/ StrategyA /\ DiscOnly
  \/ StrategyB /\ DiscOnly
  \/ StrategyC /\ DiscOnly
  \/ StrategyD /\ DiscOnly
  \/ StrategyE /\ DiscOnly
  \/ SkipStrategy /\ DiscOnly
  \/ CloseAndReturn /\ DiscOnly

\* one call of discoverPropOptions
SpecDisc == InitOther /\ [][NextDisc]_vars

NextNorm ==
  \/ NormTake /\ FnOnly
  \/ NormApply /\ FnOnly

\* one call of normalizeRow on a grid without a player header
SpecNorm == InitOther /\ [][NextNorm]_vars

NextNum ==
  \/ NumTake /\ FnOnly
  \/ NumApply /\ FnOnly

\* the numeric parsers on one cell text
SpecNum == InitOther /\ [][NextNum]_vars

NextPaths ==
  \/ PathsTake /\ FnOnly
  \/ PathsApply /\ FnOnly

\* the fast and the slow path of the collector on one document
SpecPaths == InitOther /\ [][NextPaths]_vars

NextClick ==
  \/ ClickTake /\ FnOnly
  \/ ClickApply /\ FnOnly

\* one call of clickOptionInList on an opened list
SpecClick == InitOther /\ [][NextClick]_vars

NextPm ==
  \/ \E type \in ProcessTypes : spawn(type) /\ PmOnly
  \/ \E c \in 1..MaxChildren : ChildClose(c) /\ PmOnly
  \/ \E c \in 1..MaxChildren : ChildError(c) /\ PmOnly
  \/ killActive /\ PmOnly

\* one ProcessManager, its callers and the events of its children
SpecPm == InitOther /\ [][NextPm]_vars

(***************************************************************************)
(* Properties of the scrape loop (specification Spec)                      *)
(***************************************************************************)

\* positions of the events of category key with kind ev
EventsOf(key, ev) == {j \in DOMAIN events : events[j].propKey = key /\ events[j].ev = ev}

HasError(key) == \E e \in DOMAIN errors : errors[e].propKey = key
HasResult(key) == \E r \in DOMAIN results : results[r].propKey = key

\* the end-to-end scenario: two categories, the first succeeds with 50 rows, the
\* second fails every attempt
Scenario50 ==
  /\ Len(toScrape) = 2
  /\ \E r \in DOMAIN results :
       results[r].propKey = toScrape[1].key /\ Len(results[r].rows) = 50
  /\ Cardinality(EventsOf(toScrape[2].key, "fail")) = SCRAPE_RETRY_COUNT

\* C1: when the loop has finished, summary.propsAttempted is the number of
\* categories selected, summary.propsSucceeded the number of results, which is the
\* number of categories without an error entry, and summary.rowsTotal the sum of
\* rows.length over the results; the 50-row scenario gives {2, 1, 50} and exactly
\* one error entry, for the second category.
C1_SummaryCounts ==
  pc = "done" =>
    /\ session.summary.propsAttempted = Len(toScrape)
    /\ session.summary.propsSucceeded = Len(session.results)
    /\ Len(session.results) =
         Cardinality({k \in DOMAIN toScrape :
                        ~\E e \in DOMAIN session.errors :
                            session.errors[e].propKey = toScrape[k].key})
    /\ session.summary.rowsTotal = SumLen(session.results)
    /\ Scenario50 =>
         /\ session.summary = [propsAttempted |-> 2, propsSucceeded |-> 1,
                               rowsTotal |-> 50]
         /\ Len(session.errors) = 1
         /\ session.errors[1].propKey = toScrape[2].key

C1_Witness == pc = "done" /\ Scenario50

\* index in toScrape of the category with this key
IndexOf(key) == CHOOSE k \in DOMAIN toScrape : toScrape[k].key = key

IsEvent(j, ev, key, n) ==
  /\ j \in DOMAIN events
  /\ events[j] = [ev |-> ev, propKey |-> key, attempt |-> n]

\* C3: at most SCRAPE_RETRY_COUNT attempts per category; attempt n+1 starts only
\* after attempt n of the same category failed; nothing follows a success; an error
\* is recorded only after exactly SCRAPE_RETRY_COUNT failed attempts; the pause
\* comes between attempts and never after the last failed attempt.
C3_BoundedRetries ==
  /\ attempt <= SCRAPE_RETRY_COUNT + 1
  /\ \A j \in DOMAIN events :
       LET e == events[j] IN
         /\ e.ev # "error" => e.attempt \in 1..SCRAPE_RETRY_COUNT
         /\ e.ev = "start" /\ e.attempt > 1 =>
              /\ IsEvent(j - 1, "pause", e.propKey, e.attempt - 1)
              /\ IsEvent(j - 2, "fail", e.propKey, e.attempt - 1)
         /\ e.ev = "start" /\ e.attempt = 1 =>
              \A j2 \in 1..(j - 1) : events[j2].propKey # e.propKey
         /\ e.ev = "ok" =>
              /\ IsEvent(j - 1, "start", e.propKey, e.attempt)
              /\ \A j2 \in DOMAIN events : j2 > j => events[j2].propKey # e.propKey
         /\ e.ev = "fail" => IsEvent(j - 1, "start", e.propKey, e.attempt)
         /\ e.ev = "fail" /\ e.attempt = SCRAPE_RETRY_COUNT /\ j < Len(events) =>
              IsEvent(j + 1, "error", e.propKey, 0)
         /\ e.ev = "pause" =>
              /\ e.attempt < SCRAPE_RETRY_COUNT
              /\ IsEvent(j - 1, "fail", e.propKey, e.attempt)
         /\ e.ev = "error" =>
              /\ IsEvent(j - 1, "fail", e.propKey, SCRAPE_RETRY_COUNT)
              /\ Cardinality(EventsOf(e.propKey, "fail")) = SCRAPE_RETRY_COUNT
              /\ Cardinality(EventsOf(e.propKey, "start")) = SCRAPE_RETRY_COUNT
              /\ Cardinality(EventsOf(e.propKey, "pause")) = SCRAPE_RETRY_COUNT - 1
              /\ \A j2 \in DOMAIN events : j2 > j => events[j2].propKey # e.propKey

\* one category succeeded on its second attempt and another one ran out of attempts
C3_Witness ==
  /\ \E j \in DOMAIN events : events[j].ev = "ok" /\ events[j].attempt = 2
  /\ \E j \in DOMAIN events : events[j].ev = "error"

\* C14: at every waitForTableRefresh call of the orchestrator, on first attempts
\* and on retries, the previousSignature argument is the first-row signature the
\* table had immediately before that attempt's selection.
C14_ArgIsSignatureBeforeSelection ==
  pc = "headers" => refreshArg = sigBefore

\* C15: when discovery finds no categories, no category is attempted and the
\* failure is not reported in session.errors, the per-category error list (likewise
\* for an unavailable lock and a missing authenticated state, where main returns
\* before the scrape starts).
C15_RunFailureNotInErrors ==
  pc = "done" /\ noOptions =>
    /\ events = <<>>
    /\ session.errors = <<>>

\* C16: every run that has returned has written the combined session file, and the
\* written session has exactly the succeeded categories in results and exactly the
\* failed ones in errors.
C16_SessionFileAlwaysWritten ==
  pc = "done" =>
    /\ allPropsFile = Some(session)
    /\ \A k \in DOMAIN toScrape :
         /\ (\E r \in DOMAIN session.results :
               session.results[r].propKey = toScrape[k].key)
              <=> EventsOf(toScrape[k].key, "ok") # {}
         /\ (\E e \in DOMAIN session.errors :
               session.errors[e].propKey = toScrape[k].key)
              <=> EventsOf(toScrape[k].key, "ok") = {}
    /\ Len(session.results) + Len(session.errors) = Len(toScrape)

\* what holds of the runs that reach the loop
SessionFileWrittenAfterLoop ==
  pc = "done" /\ toScrape # <<>> => C16_SessionFileAlwaysWritten

\* none of the three strategies finds the option on this page
NoneLocates(pg) == pg.select = "none" /\ pg.trigger = "other" /\ pg.button = "other"

SelectionFailsWhenNotLocated ==
  ~IsNull(selection) =>
    /\ NoneLocates(selection[1].page) =>
         /\ selection[1].result.error = Some("Could not select prop option")
         /\ pc = "catch"
    /\ pc = "headers" <=> ~IsNull(selection[1].result.activated)
    /\ pc = "catch" <=> ~IsNull(selection[1].result.error)

FailedSelectionIsFailedAttempt ==
  pc = "catch" /\ ~IsNull(selection) =>
    /\ events' = Append(events, Event("fail", option, attempt))
    /\ attempt' = attempt /\ i' = i
    /\ pc' \in {"pause", "next_attempt"}

\* C20: selectPropOption fails with the error 'Could not select prop option'
\* whenever none of its three strategies locates the option, never returns normally
\* without having activated an option, and its error reaches the retry loop of the
\* orchestrator, where it counts as one failed attempt of the category.
C20_SelectionErrorReachesRetryLoop ==
  []SelectionFailsWhenNotLocated /\ [][FailedSelectionIsFailedAttempt]_vars

\* the option was not found on the first attempt and activated through the popup
\* trigger on the second
C20_Witness ==
  /\ pc = "headers"
  /\ attempt = 2
  /\ selection[1].result.activated = Some("B")
  /\ \E j \in DOMAIN events : events[j] = Event("fail", option, 1)

(***************************************************************************)
(* Properties of the lock file (specification SpecLock)                    *)
(***************************************************************************)

\* p is between its successful acquireLock and its releaseLock
Holding(p) == ppc[p] \in {"launch", "verify", "scrape", "finally", "closePool", "release"}

MutualExclusion ==
  \A p \in Procs :
    /\ Holding(p) => /\ lockFile = Some(p)
                     /\ acquired[p]
                     /\ \A q \in Procs : Holding(q) => q = p
    /\ runResult[p] = "lock_held" => /\ ppc[p] = "exited"
                                     /\ ~acquired[p]
                                     /\ ~scraped[p]
                                     /\ ~browser[p]

\* a step of a process that finds the lock held ends its run and leaves the file
FailFast ==
  \A p \in Procs :
    ppc[p] = "lock" /\ lockFile # Null /\ ppc'[p] # "lock" =>
      /\ ppc'[p] \in {"exited", "killed"}
      /\ lockFile' = lockFile

\* the lock file is only ever removed by the releaseLock of the process that made it
RemovedByHolder ==
  lockFile # Null /\ lockFile' # lockFile =>
    /\ lockFile' = Null
    /\ \E p \in Procs : lockFile = Some(p) /\ ppc[p] = "release" /\ ppc'[p] = "exited"

\* C4: at most one process is between a successful acquireLock and its
\* releaseLock; a process that finds the lock held fails at once, attempts no
\* category and never removes the lock file of the other process.
C4_LockExclusive == [](MutualExclusion) /\ [][FailFast /\ RemovedByHolder]_vars

\* one process is scraping while the other has just failed on the held lock
C4_Witness ==
  \E p \in Procs : \E q \in Procs :
    /\ p # q
    /\ ppc[p] = "scrape"
    /\ lockFile = Some(p)
    /\ runResult[q] = "lock_held"

\* C5 as stated: a run that acquired the lock has removed its lock file whenever it
\* has ended, whatever the exit path.  The code does not ensure it: see
\* FinallyClose and KillActive.
C5_LockAlwaysReleased ==
  \A p \in Procs : ppc[p] \in Terminated /\ acquired[p] => lockFile # Some(p)

(***************************************************************************)
(* Properties of the persistence layer (specification SpecDb)              *)
(***************************************************************************)

StoredKeys(table) == {ConflictKey(t) : t \in table}
SessionKeys == {NatKey(r) : r \in Range(allRows)}

\* the current call has ended, by a return or by a throw
CallEnded == dbpc \in {"returned", "thrown"}

\* C6 as stated: when the session of the previous call is persisted again, the
\* second call reports rowsInserted = 0 and rowsUpdated = number of rows, and
\* prop_rows has as many rows after it as after the first call.  It fails for the
\* sessions of C9, whose calls throw and report nothing.
C6_SecondPersistIdempotent ==
  again # "no" /\ CallEnded =>
    /\ dbpc = "returned"
    /\ persistResult.rowsInserted = 0
    /\ persistResult.rowsUpdated = Len(allRows)
    /\ Cardinality(prop_rows) = Cardinality(rowsBefore)

MutableFields == {"prop_label", "team", "status", "projection", "diff", "dvp",
                  "hit_rates", "raw", "row_signature", "run_id"}
KeyFields == {"sport", "date_iso", "prop_key", "player_name", "line", "odds_over",
              "odds_under"}

\* a chunk's statement succeeds: each stored row whose natural key is proposed is
\* replaced by one row with the proposed mutable fields and its own key fields, and
\* every other stored row stays
ConflictOverwrites ==
  dbpc = "chunk" /\ offset' > offset =>
    LET batch == Slice(allRows, offset, offset + BATCH_SIZE)
    IN \A t \in prop_rows :
         LET hits == {k \in DOMAIN batch : NatKey(batch[k]) = ConflictKey(t)}
         IN IF hits = {}
              THEN t \in prop_rows'
              ELSE \E k \in hits : \E t2 \in prop_rows' :
                     /\ \A f \in MutableFields :
                          t2[f] = Proposed(runId, "nba", batch[k])[f]
                     /\ \A f \in KeyFields : t2[f] = t[f]
                     /\ \A t3 \in prop_rows' : ConflictKey(t3) = ConflictKey(t) => t3 = t2

RunOfLastWrite ==
  \A t \in prop_rows :
    /\ ConflictKey(t) \in DOMAIN lastWriter
    /\ t.run_id = lastWriter[ConflictKey(t)]

\* C7: on a natural-key conflict the upsert overwrites prop_label, team, status,
\* projection, diff, dvp, hit_rates, raw, row_signature and run_id and leaves sport,
\* date_iso, prop_key, player_name, line, odds_over and odds_under; every stored
\* row's run_id is the run of the most recent persist that wrote its natural key.
C7_ConflictUpdate == [](RunOfLastWrite) /\ [][ConflictOverwrites]_vars

\* a row stored with no line by run 1 was overwritten in run 2 by a row whose line is
\* the sentinel: new signature and run, the stored line still absent
C7_Witness ==
  \E t \in prop_rows :
    /\ IsNull(t.line)
    /\ t.run_id = 2
    /\ t.team = Some("BOS")
    /\ t.row_signature = PoolRow(PtsOption, Some(SENTINEL), 2).rowSignature

\* C8 as stated: a call that returns reports rowsInserted + rowsUpdated =
\* rowsPersisted = number of rows of the session, rowsInserted being the number of
\* rows whose natural key was not stored before the call and rowsUpdated the number
\* of rows whose key was.
C8_CountsByKeyBeforeCall ==
  dbpc = "returned" =>
    /\ persistResult.rowsInserted + persistResult.rowsUpdated = persistResult.rowsPersisted
    /\ persistResult.rowsPersisted = SumLen(dbSession.results)
    /\ persistResult.rowsInserted =
         Cardinality({k \in DOMAIN allRows : NatKey(allRows[k]) \notin StoredKeys(rowsBefore)})
    /\ persistResult.rowsUpdated =
         Cardinality({k \in DOMAIN allRows : NatKey(allRows[k]) \in StoredKeys(rowsBefore)})

\* C8, amended: a call that returns reports rowsInserted + rowsUpdated =
\* rowsPersisted = number of rows of the session; rowsInserted is the number of
\* distinct natural keys of the session that were not stored before the call, which
\* is the number of rows the call added to the store, and rowsUpdated counts every
\* other row (key stored before the call, or written by an earlier chunk of it).
C8_CountsByStoredRows ==
  dbpc = "returned" =>
    /\ persistResult.rowsInserted + persistResult.rowsUpdated = persistResult.rowsPersisted
    /\ persistResult.rowsPersisted = SumLen(dbSession.results)
    /\ persistResult.rowsInserted = Cardinality(SessionKeys \ StoredKeys(rowsBefore))
    /\ persistResult.rowsInserted = Cardinality(prop_rows) - Cardinality(rowsBefore)
    /\ persistResult.rowsUpdated = Len(allRows) - persistResult.rowsInserted

\* a returned call on a non-empty store, with a natural key in two chunks: one row
\* inserted, two updated
C8_Witness ==
  /\ dbpc = "returned"
  /\ rowsBefore # {}
  /\ Len(allRows) = 3
  /\ Cardinality(SessionKeys) = 2
  /\ persistResult.rowsInserted = 1
  /\ persistResult.rowsUpdated = 2

\* C9 as stated: a call on a session with two or more rows of one natural key
\* returns and leaves exactly one stored row for each of its keys, and the store
\* never holds two rows with the same natural key.  The code rejects such a session
\* when the rows fall in one chunk: see UpsertRows.
C9_DuplicateKeysCollapse ==
  /\ \A t1 \in prop_rows : \A t2 \in prop_rows :
       ConflictKey(t1) = ConflictKey(t2) => t1 = t2
  /\ Cardinality(SessionKeys) < Len(allRows) /\ CallEnded =>
       /\ dbpc = "returned"
       /\ \A k \in SessionKeys : Cardinality({t \in prop_rows : ConflictKey(t) = k}) = 1

(***************************************************************************)
(* Properties of the row collector (specification SpecColl)                *)
(***************************************************************************)

DistinctSignatures(out) ==
  \A a \in DOMAIN out : \A b \in DOMAIN out :
    a # b => out[a].rowSignature # out[b].rowSignature

\* C10: collectAllRowsByScrolling never returns two rows with equal rowSignature,
\* whether it returns from the fast path or from the slow path, whatever the reads
\* of the table gave.
C10_NoDuplicateSignatures ==
  /\ DistinctSignatures(collected)
  /\ cpc = "returned" => DistinctSignatures(returned)

\* the slow path returned several rows after reads that repeated a signature
C10_Witness ==
  /\ cpc = "returned"
  /\ totalAttempts > STABLE_SCROLL_THRESHOLD
  /\ sawDuplicate
  /\ Len(returned) >= 2

(***************************************************************************)
(* Properties of makeRowSignature (specification SpecSig)                  *)
(***************************************************************************)

IdentityFields == {"playerName", "team", "line", "oddsOver", "oddsUnder"}

SameIdentity(r1, r2) == \A f \in IdentityFields : r1[f] = r2[f]

\* the number of identity fields the row has a value for
PresentFields(r) ==
  Cardinality({f \in IdentityFields : IF f = "playerName" THEN r[f] # "" ELSE ~IsNull(r[f])})

\* C11 as stated: two rows of one category with identical playerName, team, line,
\* oddsOver and oddsUnder get equal signatures, whatever their raw maps hold and
\* whichever of the five fields are absent.
C11_SameFieldsSameSignature ==
  sigpc = "signed" /\ SameIdentity(sigRows[1], sigRows[2]) => sigOut[1] = sigOut[2]

\* C11, amended: two rows of one category with identical playerName, team, line,
\* oddsOver and oddsUnder get equal signatures whatever their raw maps hold when at
\* least two of the five fields are present; with at most one field present they get
\* equal signatures when the first five values of their raw maps are equal as well.
C11_SameFieldsSameSignatureUnlessBare ==
  sigpc = "signed" /\ SameIdentity(sigRows[1], sigRows[2]) =>
    \/ sigOut[1] = sigOut[2]
    \/ /\ PresentFields(sigRows[1]) <= 1
       /\ Take(ObjectValues(sigRows[1].raw), 5) # Take(ObjectValues(sigRows[2].raw), 5)

\* two rows with the same player, team and line and different raw maps were signed
C11_Witness ==
  /\ sigpc = "signed"
  /\ SameIdentity(sigRows[1], sigRows[2])
  /\ sigRows[1].raw # sigRows[2].raw
  /\ PresentFields(sigRows[1]) = 3
  /\ sigOut[1] = sigOut[2]

\* C12 as stated: two rows of one category with equal signatures have equal
\* playerName, team, line, oddsOver and oddsUnder.  The code joins only the fields
\* that are present, so a value can stand for different fields.
C12_SameSignatureSameFields ==
  sigpc = "signed" /\ sigOut[1] = sigOut[2] => SameIdentity(sigRows[1], sigRows[2])

(***************************************************************************)
(* Properties of the refresh detector                                      *)
(***************************************************************************)

\* every loop iteration reads at most twice and lasts at least one tick
MaxReads == 2 * RefreshTimeoutTicks + 2

RefreshBoundedPolls == reads <= MaxReads

RefreshReturnsLastObserved ==
  rpc = "returned" =>
    /\ refreshed = Some(IF lastSig # "" THEN lastSig ELSE prevArg)
    /\ (~changeSeen => refreshed = Some(prevArg))

C13_Stuck == rpc = "hung" /\ ~changeSeen /\ refreshed = Null

(***************************************************************************)
(* Properties of the run result (specification SpecMain)                   *)
(***************************************************************************)

NoCategoryErrors == Len(mSession[1].errors) = 0

\* what the result written to the run log says
LoggedResultFollowsErrors ==
  ~IsNull(runLog) =>
    /\ runLog[1].success <=> NoCategoryErrors
    /\ runLog[1].session = mSession
    /\ runLog[1].db = dbResult

\* C17: for a run that reached the end of scraping, success is true and the exit
\* code 0 exactly when session.errors is empty; a failure of persistScrapeSession
\* changes neither success nor the session and shows only as db.status = 'error'.
C17_SuccessIffNoErrors ==
  mpc = "exited" =>
    /\ exitCode = 0 <=> NoCategoryErrors
    /\ ~IsNull(result) /\ (result[1].success <=> NoCategoryErrors)
    /\ dbResult[1].status = "error" => result[1].session = mSession

(***************************************************************************)
(* Properties of option discovery (specification SpecDisc)                 *)
(***************************************************************************)

StrategyIndex(st) == CHOOSE j \in DOMAIN StrategyOrder : StrategyOrder[j] = st

\* controls are activated in the order of the strategies, and none after options
\* were found
StrategiesInOrder ==
  /\ \A a, b \in DOMAIN activations :
       a < b => StrategyIndex(activations[a]) <= StrategyIndex(activations[b])
  /\ ~lateActivation
  /\ strategy = "none" => options = <<>>

VocabularyMatches(opts) == {j \in DOMAIN opts : LooksLikeProp(opts[j].label)}

\* C18: the strategies are tried in the order native select, combobox role,
\* haspopup button, label scan, broad scan; the options returned are those of the
\* first strategy that yields at least 3 options matching the category vocabulary;
\* no control of a later strategy is activated after a success; the call never
\* throws, returning an empty list when no strategy succeeds.
C18_FirstStrategyWithThreeMatches ==
  /\ StrategiesInOrder
  /\ dpc = "returned" /\ options # <<>> =>
       Cardinality(VocabularyMatches(options)) >= 3
  /\ dpc # "thrown"

\* C19: every popup opened by activating a control is closed with Escape before
\* another control or strategy is tried and before the function returns, whatever
\* the outcome of the attempt; two popups are never open together.
C19_PopupClosedBeforeNextTry ==
  /\ ~overlap
  /\ popupOpen <= 1
  /\ dpc = "returned" => popupOpen = 0

(***************************************************************************)
(* Properties of normalizeRow (specification SpecNorm)                     *)
(***************************************************************************)

\* positions of the cells that are non-empty and do not start with a digit
NameLikeCells(cells) ==
  {k \in 1..Len(cells) : cells[k] # "" /\ cells[k] \notin {"5", "7", "9"}}

\* the first line of a cell text
FirstLine(text) == IF text = "A\nBOS | PG" THEN "A" ELSE text

Parsers == {"odds", "line", "number"}

\* the text is empty or is one sign character
SignOnly(text) == text = <<>> \/ (Len(text) = 1 /\ text[1] \in {"-", "+", "u2212"})

\* an empty or sign-only text parses to null in every parser
SignOnlyIsNull ==
  fpc = "parsed" /\ SignOnly(fIn.text) => \A f \in Parsers : IsNull(fOut.text[f])

\* a text that begins with the Unicode minus parses as its ASCII spelling does
UnicodeMinusAsAscii(f) ==
  fpc = "parsed" /\ fIn.text # <<>> /\ fIn.text[1] = "u2212"
    => fOut.text[f] = fOut.ascii[f]

\* C22: each of parseOdds, parseLine and parseNumber gives null, never 0, for an
\* empty or sign-only input, and gives for an input written with the Unicode
\* minus the same value as for the input written with the ASCII minus.
C22_SignOnlyNullAndUnicodeMinus ==
  SignOnlyIsNull /\ \A f \in Parsers : UnicodeMinusAsAscii(f)

\* what holds of parseOdds and parseNumber, which replace the Unicode minus
C22_OddsAndNumberNormaliseMinus ==
  UnicodeMinusAsAscii("odds") /\ UnicodeMinusAsAscii("number")

\* "u2212 5": parseOdds and parseNumber give -5
C22_MinusFive ==
  /\ fpc = "parsed"
  /\ fIn.text = <<"u2212", "5">>
  /\ fOut.text.odds = Some(0 - 5)
  /\ fOut.text.number = Some(0 - 5)

(***************************************************************************)
(* Properties of the two collector paths (specification SpecPaths)         *)
(***************************************************************************)


\* C23: for a table whose rows are all in the document, the rows the fast path
\* returns and the rows an exhaustive run of the slow path accumulates are the
\* same set of rows (signatures and field values, order ignored).
C23_FastPathEqualsSlowPath ==
  fpc = "collected" /\ fOut.fast # <<>> => Range(fOut.fast) = Range(fOut.slow)

\* what holds: the paths agree when textContent and innerText agree on every cell
C23_PathsAgreeOnPlainCells ==
  fpc = "collected" /\ fOut.fast # <<>>
    /\ (\A r \in DOMAIN fIn : TextContents(fIn[r]) = InnerTexts(fIn[r]))
    => Range(fOut.fast) = Range(fOut.slow)

(***************************************************************************)
(* Properties of clickOptionInList (specification SpecClick)               *)
(***************************************************************************)

HoldsExact == \E k \in DOMAIN fIn.list : fIn.list[k].text = fIn.label

\* C24: when the opened list holds an item whose text equals the requested
\* label, clickOptionInList activates an item with exactly that label and never
\* an item that merely contains it.
C24_ExactMatchPreferred ==
  fpc = "clicked" /\ HoldsExact =>
    fOut[1] # 0 /\ fIn.list[fOut[1]].text = fIn.label

\* what holds: the exact item is taken when it carries role="option"
C24_ExactOptionRolePreferred ==
  fpc = "clicked"
    /\ (\E k \in DOMAIN fIn.list :
          fIn.list[k].text = fIn.label /\ fIn.list[k].kind = "option")
    => fOut[1] # 0 /\ fIn.list[fOut[1]].text = fIn.label

(***************************************************************************)
(* Properties of the slow path (specifications SpecCollFair, SpecColl)     *)
(***************************************************************************)

CollectEnded == cpc \in {"returned", "thrown"}

\* never more than MAX_SCROLL_ATTEMPTS iterations, never more than
\* STABLE_SCROLL_THRESHOLD empty ones in a row
IterationsBounded ==
  totalAttempts <= MAX_SCROLL_ATTEMPTS /\ stableCount <= STABLE_SCROLL_THRESHOLD

\* no iteration starts once the threshold or the attempt limit is reached
StopsAtThreshold ==
  cpc = "slow"
    /\ (stableCount >= STABLE_SCROLL_THRESHOLD \/ totalAttempts >= MAX_SCROLL_ATTEMPTS)
    => totalAttempts' = totalAttempts /\ collected' \in {collected, <<>>}

\* an iteration that adds a row resets the count of empty iterations, one that
\* adds none raises it by one
CountsEmptyIterations ==
  cpc = "slow" /\ totalAttempts' = totalAttempts + 1
    => stableCount' = IF Len(collected') > Len(collected) THEN 0 ELSE stableCount + 1

\* C25: the slow path of collectAllRowsByScrolling always terminates; it runs at
\* most MAX_SCROLL_ATTEMPTS iterations, starts no iteration once
\* STABLE_SCROLL_THRESHOLD consecutive iterations added no row, and every
\* iteration that adds a row resets the count of empty iterations to 0.
C25_SlowPathTerminates ==
  /\ []IterationsBounded
  /\ [][StopsAtThreshold /\ CountsEmptyIterations]_vars
  /\ (cpc = "slow" ~> CollectEnded)

\* the loop ran into the attempt limit while rows were still coming in
C25_AttemptLimitReached ==
  /\ cpc = "returned"
  /\ totalAttempts = MAX_SCROLL_ATTEMPTS
  /\ stableCount < STABLE_SCROLL_THRESHOLD
  /\ Len(returned) > STABLE_SCROLL_THRESHOLD

\* the loop stopped after three empty iterations that followed a reset
C25_StoppedWhenStable ==
  /\ cpc = "returned"
  /\ stableCount = STABLE_SCROLL_THRESHOLD
  /\ totalAttempts > STABLE_SCROLL_THRESHOLD + 1
  /\ totalAttempts < MAX_SCROLL_ATTEMPTS
  /\ returned # <<>>

\* C26: when a call of collectAllRowsByScrolling that scrolled the table
\* container or the page ends, by a return or by an exception, the scroll
\* position is back at the top.
C26_ScrollTopRestored == CollectEnded => scrollTop = 0

\* what holds: a call that returns has scrolled back to the top
C26_TopRestoredOnReturn == cpc = "returned" => scrollTop = 0

\* a slow-path call that scrolled and returned at the top
C26_ReturnedAtTop ==
  cpc = "returned" /\ totalAttempts > 0 /\ scrollTop = 0

(***************************************************************************)
(* Properties of the chunked upsert (specification SpecDb)                 *)
(***************************************************************************)

\* the parameter ceiling of one Postgres statement
MaxStatementParams == 65535

RECURSIVE RowsOfStatements(_)
\* the rows of the statements, in the order sent
RowsOfStatements(sts) ==
  IF sts = <<>> THEN <<>> ELSE Head(sts).rows \o RowsOfStatements(Tail(sts))

\* the chunks are consecutive slices of allRows in order: what was sent so far
\* is a prefix of allRows, and all of allRows once the call has returned
ChunksPartitionRows ==
  LET sent == RowsOfStatements(statements)
  IN /\ Len(sent) <= Len(allRows)
     /\ sent = SubSeq(allRows, 1, Len(sent))
     /\ dbpc = "returned" => sent = allRows

\* a chunk holds 1..BATCH_SIZE rows and binds COLS_PER_ROW parameters per row
ChunkSizeBounded ==
  \A s \in DOMAIN statements :
    /\ Len(statements[s].rows) \in 1..BATCH_SIZE
    /\ Len(statements[s].params) = COLS_PER_ROW * Len(statements[s].rows)
    /\ Len(statements[s].params) <= BATCH_SIZE * COLS_PER_ROW
    /\ Len(statements[s].params) < MaxStatementParams

\* placeholder 17 i + k of a statement is the k-th placeholder of its i-th VALUES
\* clause and is bound to the k-th column value of the chunk's i-th row
PlaceholdersBound ==
  \A s \in DOMAIN statements :
    LET st == statements[s]
    IN \A r \in DOMAIN st.rows : \A k \in 1..17 :
         /\ st.valuesClauses[r][k] = 17 * (r - 1) + k
         /\ st.params[17 * (r - 1) + k]
              = Proposed(st.rid, "nba", st.rows[r])[InsertColumns[k]]

\* C27: persistScrapeSession splits the rows into consecutive chunks of at most
\* BATCH_SIZE rows (500 in the source) that preserve order and hold every row
\* once, so a statement binds at most BATCH_SIZE x 17 parameters (500 x 17 =
\* 8500, below 65535), and placeholder 17 i + k is bound to the k-th field of
\* the chunk's i-th row.
C27_ChunksAndPlaceholders ==
  /\ ChunksPartitionRows
  /\ ChunkSizeBounded
  /\ PlaceholdersBound
  /\ 500 * COLS_PER_ROW = 8500 /\ 8500 < MaxStatementParams

\* a session of three rows went out as a chunk of two and a chunk of one
C27_Witness ==
  /\ dbpc = "returned"
  /\ Len(allRows) = 3
  /\ Len(statements) = 2
  /\ Len(statements[1].rows) = 2 /\ Len(statements[2].rows) = 1
  /\ statements[1].valuesClauses[2][1] = 18
  /\ statements[1].params[18] = runId

(***************************************************************************)
(* Properties of ProcessManager (specification SpecPm)                     *)
(***************************************************************************)

Alive == {c \in DOMAIN children : children[c].alive}

\* isRunning() is true exactly while a spawned child has not exited
RunningIffChildAlive == isRunning <=> Alive # {}

\* spawn while a child is active throws and starts nothing
SpawnWhileActiveThrows ==
  pmLog.op = "spawn" /\ pmLog.activeBefore # 0 => pmLog.threw /\ pmLog.child = 0

\* an event of a child clears the active state only of that child
EventClearsOnlyOwnChild ==
  pmLog.op \in {"close", "error"} /\ pmLog.activeBefore # 0
    => pmLog.child = pmLog.activeBefore

\* C28: isRunning() is true exactly while a child the manager spawned has not
\* yet exited: spawn while a child is active throws and starts nothing, at most
\* one spawned child is alive at any time, and a close or error event of a child
\* clears the active state only when that child is the active one.
C28_RunningExactlyWhileChildAlive ==
  /\ RunningIffChildAlive
  /\ SpawnWhileActiveThrows
  /\ Cardinality(Alive) <= 1
  /\ EventClearsOnlyOwnChild

\* what holds: a spawn that finds an active child throws and starts nothing
C28_SpawnGuard == SpawnWhileActiveThrows

DoneCallsOf(c) == {k \in DOMAIN doneCalls : doneCalls[k].child = c}

\* C29: for every spawned child whose close or error event has fired, the done
\* callback was invoked exactly once, with the type passed to that spawn call.
C29_DoneOncePerChildWithItsType ==
  \A c \in DOMAIN children :
    children[c].closed \/ children[c].errored =>
      /\ Cardinality(DoneCallsOf(c)) = 1
      /\ \A k \in DoneCallsOf(c) : doneCalls[k].type = Some(children[c].type)

\* what holds: a child that only closes, with no kill and no error before, is
\* reported once with its type
C29_PlainCloseReportedOnce ==
  \A c \in DOMAIN children :
    children[c].closed /\ ~children[c].errored /\ pmLog.op = "close"
      /\ pmLog.child = c /\ pmLog.activeBefore = c
      => doneCalls[Len(doneCalls)] = [child |-> c, type |-> Some(children[c].type),
                                      code |-> doneCalls[Len(doneCalls)].code]

(***************************************************************************)
(* Properties of a failed chunk (specification SpecDb)                     *)
(***************************************************************************)

\* the natural keys of the rows of the chunks before the last statement sent
EarlierKeys ==
  {NatKey(r) : r \in Range(RowsOfStatements(SubSeq(statements, 1, Len(statements) - 1)))}

\* the call threw at a chunk: no counts, the scrape_runs row is stored, every row
\* of an earlier chunk is stored under this run, and nothing else was written:
\* this run owns only keys of earlier chunks and every other stored row is as it
\* was before the call
FailedChunkLeavesEarlierChunks ==
  dbpc = "thrown" =>
    /\ persistResult = NoResult
    /\ runId \in scrape_runs
    /\ \A k \in EarlierKeys :
         \E t \in prop_rows : ConflictKey(t) = k /\ t.run_id = runId
    /\ \A t \in prop_rows :
         IF t.run_id = runId THEN ConflictKey(t) \in EarlierKeys ELSE t \in rowsBefore

\* prop_rows.run_id REFERENCES scrape_runs(id)
RunIdReferencesRun == \A t \in prop_rows : t.run_id \in scrape_runs

\* C30: when a chunk upsert of persistScrapeSession fails, the call throws and
\* reports no counts, the scrape_runs row and the rows of all earlier chunks
\* remain stored, no row of the failing or later chunks is stored, and in every
\* store state each prop_rows row references an existing scrape_runs row.
C30_FailedChunkKeepsEarlierWrites ==
  FailedChunkLeavesEarlierChunks /\ RunIdReferencesRun

\* the second chunk of a call failed after the first chunk had stored two rows
C30_Witness ==
  /\ dbpc = "thrown"
  /\ Len(statements) = 2
  /\ Cardinality({t \in prop_rows : t.run_id = runId}) = 2
  /\ runId \in scrape_runs
  /\ persistResult = NoResult

====
